---- MODULE Spec2Model ----
(***************************************************************************)
(* Verification model of the transit-tracker-api schedule engine:          *)
(*   - GtfsService.resolveTripTimes              (gtfs.service.ts)         *)
(*   - GtfsService.getUpcomingTripsForRoutesAtStops (gtfs.service.ts)      *)
(*   - ScheduleService.getUpcomingTrips          (schedule.service.ts)     *)
(*   - ScheduleService.subscribeToSchedule       (schedule.service.ts)     *)
(*                                                                         *)
(* Time is kept in the units of the code: Date values are milliseconds,    *)
(* GTFS-RT times and delays are seconds.  Instants are counted from the    *)
(* midnight of day 0 of the model on the server's clock instead of from    *)
(* 1970, so that they fit TLC's integers; agencyTimezone is what the       *)
(* agency's local time is ahead of the server's.                           *)
(***************************************************************************)
EXTENDS Integers, Sequences, FiniteSets, TLC

VARIABLES
    \* ---- resolveTripTimes called on its own
    trip,             \* the TripStopRaw argument
    stopTimeUpdate,   \* the optional IStopTimeUpdate argument
    resolved,         \* the value returned, None before the call
    \* ---- getUpcomingTripsForRoutesAtStops
    now,              \* Date.now() taken at line 591
    routes,           \* the RouteAtStop[] argument
    feedEntities,     \* the real-time feed entities of this pass
    dayIndex,         \* position of the for-loop over scheduleDates
    tripStops,        \* the result list being built
    visited,          \* history: one record per occurrence the loop handled
    cacheManager,     \* the entries of the cache: cacheKey -> [value, ttl]
    callOutcome,      \* "running", "returned" or "rejected" (the promise of the call)
    agencyTimezone,   \* agency_timezone as the offset of agency time from server time
    calendar,         \* the rows of table calendar
    calendarDates,    \* the rows of table calendar_dates
    lastCached,       \* history: the last call that went through cached()
    \* ---- getUpcomingTrips
    options,          \* ScheduleOptions: routes with offsets, limit, ...
    upcomingTrips,    \* what the provider returned
    clock,            \* Date.now() / 1000 at line 68
    schedule,         \* the ScheduleUpdate returned, None before the call
    \* ---- subscribeToSchedule
    upstream,         \* what a pass of getUpcomingTrips would compute right now
    attached,         \* the consumers subscribed to the shared observable
    received,         \* the notifications each consumer got on its present subscription
    execs,            \* the executions of the Observable's subscribe function
    metrics,          \* the calls made to metricsService: add and remove
    observable,       \* "pending" while subscribeToSchedule runs, then "created" or "failed"
    changes,          \* history of SpecPoll: how often upstream has changed
    awaiting,         \* history of SpecPoll: the consumers attached since the last change
    \* ---- the entry points getSchedule and subscribeToSchedule
    thrown,           \* the exception an entry point threw, None when it did not
    providerCalls,    \* calls of provider.getUpcomingTripsForRoutesAtStops
    \* ---- parseRouteStopPairs
    routeStopPairsRaw,  \* the argument, a string given as the sequence of its characters
    routeStopPairs      \* what the call gave: None before it, then pairs or an error

resolveVars == <<trip, stopTimeUpdate, resolved>>
reconVars == <<now, routes, feedEntities, dayIndex, tripStops, visited,
               cacheManager, callOutcome, agencyTimezone, calendar, calendarDates,
               lastCached>>
aggVars == <<options, upcomingTrips, clock, schedule>>
pollVars == <<changes, awaiting>>
subVars == <<upstream, attached, received, execs, metrics, observable, changes, awaiting>>
serviceVars == <<thrown, providerCalls>>
parseVars == <<routeStopPairsRaw, routeStopPairs>>
vars == <<trip, stopTimeUpdate, resolved, now, routes, feedEntities, dayIndex,
          tripStops, visited, cacheManager, callOutcome, agencyTimezone, calendar,
          calendarDates, lastCached, options, upcomingTrips, clock, schedule,
          upstream, attached, received, execs, metrics, observable, changes, awaiting,
          thrown, providerCalls, routeStopPairsRaw, routeStopPairs>>

(***************************************************************************)
(* Optional values (undefined in the code): None, or Some(v).              *)
(***************************************************************************)
None == <<>>
Some(v) == <<v>>
Has(o) == o # <<>>
Val(o) == o[1]

Abs(x) == IF x < 0 THEN -x ELSE x
Max(a, b) == IF a > b THEN a ELSE b
Min(a, b) == IF a < b THEN a ELSE b

\* JavaScript truthiness of an optional number: defined and not 0
Truthy(o) == Has(o) /\ Val(o) # 0

(***************************************************************************)
(* resolveTripTimes, gtfs.service.ts 519-585                               *)
(***************************************************************************)
ninetyMinutes == 5400000

\* stopTimeUpdate?.arrival and stopTimeUpdate?.departure
eventOf(stu, key) ==
    IF Has(stu) THEN (IF key = "arrival" THEN Val(stu).arrival ELSE Val(stu).departure)
    ELSE None

\* stopTimeUpdate[key]?.delay and stopTimeUpdate[key]?.time
delayOf(stu, key) == IF Has(eventOf(stu, key)) THEN Val(eventOf(stu, key)).delay ELSE None
timeOf(stu, key) == IF Has(eventOf(stu, key)) THEN Val(eventOf(stu, key)).time ELSE None

\* lines 526-550: the single delay used for the side the update leaves out
resolveDelay(trip_, stu) ==
    LET hasAnyUpdate == Has(eventOf(stu, "arrival")) \/ Has(eventOf(stu, "departure"))
        hasOnlyOneUpdate == ~Has(eventOf(stu, "arrival")) \/ ~Has(eventOf(stu, "departure"))
        \* arrival?.delay ?? departure?.delay
        definedDelay == IF Has(delayOf(stu, "arrival")) THEN delayOf(stu, "arrival")
                        ELSE delayOf(stu, "departure")
    IN  IF Has(stu) /\ hasAnyUpdate /\ hasOnlyOneUpdate
        THEN IF Truthy(definedDelay) THEN Val(definedDelay)
             \* the loop over ["arrival", "departure"]: the last key with a time wins
             ELSE IF Has(timeOf(stu, "departure"))
                  THEN Val(timeOf(stu, "departure")) - (trip_.departure_time \div 1000)
             ELSE IF Has(timeOf(stu, "arrival"))
                  THEN Val(timeOf(stu, "arrival")) - (trip_.arrival_time \div 1000)
             ELSE 0
        ELSE 0

\* lines 556-558
resolveArrival(trip_, stu) ==
    IF Truthy(timeOf(stu, "arrival")) THEN Val(timeOf(stu, "arrival")) * 1000
    ELSE trip_.arrival_time + resolveDelay(trip_, stu) * 1000

\* lines 552-554
resolveDeparture(trip_, stu) ==
    IF Truthy(timeOf(stu, "departure")) THEN Val(timeOf(stu, "departure")) * 1000
    ELSE trip_.departure_time + resolveDelay(trip_, stu) * 1000

\* lines 560-562: departureTime.setTime(arrivalTime.getTime())
clampDeparture(arrivalTime, departureTime) ==
    IF arrivalTime > departureTime THEN arrivalTime ELSE departureTime

\* lines 564-567
maximumDeviationFromSchedule(trip_, arrivalTime, departureTime) ==
    Max(Abs(departureTime - trip_.departure_time), Abs(arrivalTime - trip_.arrival_time))

\* a threshold that also discards a deviation of exactly 90 minutes
isLowConfidence_AtLeast(deviation) == deviation >= ninetyMinutes

\* line 570
isLowConfidence(deviation) == deviation > ninetyMinutes

\* real-time only when the update carries an arrival or a departure
isRealtimeOf_NeedsEvent(stu) ==
    Has(stu) /\ (Has(Val(stu).arrival) \/ Has(Val(stu).departure))

\* line 583: !!stopTimeUpdate
isRealtimeOf(stu) == Has(stu)

resolveTripTimes(trip_, stu) ==
    LET arrivalTime == resolveArrival(trip_, stu)
        departureTime == clampDeparture(arrivalTime, resolveDeparture(trip_, stu))
    IN  IF isLowConfidence(maximumDeviationFromSchedule(trip_, arrivalTime, departureTime))
        THEN [departureTime |-> trip_.departure_time,
              arrivalTime |-> trip_.arrival_time,
              isRealtime |-> FALSE]
        ELSE [departureTime |-> departureTime,
              arrivalTime |-> arrivalTime,
              isRealtime |-> isRealtimeOf(stu)]

(***************************************************************************)
(* The static timetable behind getScheduleForRouteAtStop, gtfs.service.ts  *)
(* 175-304.  stopTimes holds the stop_times rows of the feed joined with   *)
(* their trips, in ORDER BY arrival_time; arrival_time and departure_time  *)
(* are intervals from the service day's midnight in milliseconds and may   *)
(* exceed 24 h.  The tables calendar and calendar_dates and the agency's    *)
(* time zone are state; dates are day numbers.  The display columns        *)
(* (route_name, route_color, stop_name, stop_headsign) are copied through  *)
(* unchanged by the code and are left out.                                 *)
(***************************************************************************)
Hour == 60 * 60 * 1000
\* to_timestamp(now) + 'n days'::interval, line 190 and 201
Day == 24 * Hour

stopTimes ==
    << [trip_id |-> "STBA", service_id |-> "FULLW", route_id |-> "STBA", stop_id |-> "STAGECOACH",
        stop_sequence |-> 1, arrival_time |-> 6 * Hour + 1800000,
        departure_time |-> 6 * Hour + 1800000],
       [trip_id |-> "AAMV1", service_id |-> "WE", route_id |-> "AAMV", stop_id |-> "BEATTY_AIRPORT",
        stop_sequence |-> 2, arrival_time |-> 10 * Hour,
        departure_time |-> 10 * Hour + 300000],
       [trip_id |-> "STBA_OVERNIGHT", service_id |-> "FULLW", route_id |-> "STBA",
        stop_id |-> "STAGECOACH",
        stop_sequence |-> 1, arrival_time |-> 24 * Hour + 1800000,
        departure_time |-> 24 * Hour + 1800000] >>

\* to_char(date, 'YYYYMMDD') for the days of the model; day 0 is 2008-01-03
toChar(d) == <<"20080103", "20080104", "20080105", "20080106", "20080107">>[d + 1]

\* line 201: DATE(TIMEZONE(tz, to_timestamp(now / 1000) + interval)), as a day number
currentDay(now_, dayOffset) == (now_ + dayOffset * Day + agencyTimezone) \div Day

\* EXTRACT(DOW FROM today): 0 is Sunday; day 0 of the model is a Thursday
dayOfWeek(today) == (today + 4) % 7

\* a service that runs on every day of the model
EveryDay ==
    { [service_id |-> s, start_date |-> 0, end_date |-> 4, dow |-> <<1, 1, 1, 1, 1, 1, 1>>] :
        s \in {"FULLW", "WE"} }

\* lines 203-217: dow holds the columns sunday .. saturday
activeServices(today) ==
    {c.service_id : c \in {r \in calendar : /\ r.start_date <= today /\ today <= r.end_date
                                            /\ r.dow[dayOfWeek(today) + 1] = 1}}

\* lines 218-224
overrideServices(today) ==
    {e.service_id : e \in {r \in calendarDates : r.date = today /\ r.exception_type = 1}}

\* lines 225-231
removedServices(today) ==
    {e.service_id : e \in {r \in calendarDates : r.date = today /\ r.exception_type = 2}}

\* lines 232-242: UNION and EXCEPT have the same precedence and are applied
\* from left to right
finalActiveServices(today) ==
    (activeServices(today) \cup overrideServices(today)) \ removedServices(today)

\* lines 243-296: one TripStopRaw per stop_times row of the route's trips of an
\* active service at the stop; TIMEZONE(tz, ...) turns agency time into an instant
getScheduleForRouteAtStop(now_, routeId, stopId, dayOffset) ==
    LET today == currentDay(now_, dayOffset)
        rows == SelectSeq(stopTimes, LAMBDA st : /\ st.route_id = routeId /\ st.stop_id = stopId
                                                 /\ st.service_id \in finalActiveServices(today))
    IN  [i \in 1..Len(rows) |->
            [trip_id |-> rows[i].trip_id,
             stop_id |-> rows[i].stop_id,
             route_id |-> rows[i].route_id,
             stop_sequence |-> rows[i].stop_sequence,
             arrival_time |-> today * Day + rows[i].arrival_time - agencyTimezone,
             departure_time |-> today * Day + rows[i].departure_time - agencyTimezone,
             start_date |-> toChar((today * Day + rows[i].arrival_time) \div Day)]]

(***************************************************************************)
(* cached, gtfs.service.ts 71-93, and the cache key of the static lookup,  *)
(* 180-186.  The cache is a function from cache keys to [value, ttl].  A   *)
(* call of fn is given by what it settles to: [threw |-> TRUE], or a value *)
(* with ttl = None for a bare value and Some(t) for a {value, ttl} pair.   *)
(***************************************************************************)
\* the feed code of the test configuration
FeedCode == "testfeed"

\* line 76
cacheKeyOf(key) == FeedCode \o "-" \o key

threw == [threw |-> TRUE]
bareValue(v) == [threw |-> FALSE, value |-> v, ttl |-> None]

\* cacheManager.set
cacheSet(cache, cacheKey, value, ttl) ==
    [k \in DOMAIN cache \cup {cacheKey} |->
        IF k = cacheKey THEN [value |-> value, ttl |-> ttl] ELSE cache[k]]

\* a cache that stores an entry before the computation has settled
cached_SetsFirst(cache, key, settled, ttl) ==
    [cache |-> cacheSet(cache, cacheKeyOf(key), <<>>, ttl), result |-> settled,
     invoked |-> TRUE]

\* a cache that stores a {value, ttl} pair whatever its ttl is
cached_StoresEveryPair(cache, key, settled, ttl) ==
    IF cacheKeyOf(key) \in DOMAIN cache
    THEN [cache |-> cache, result |-> bareValue(cache[cacheKeyOf(key)].value),
          invoked |-> FALSE]
    ELSE IF settled.threw THEN [cache |-> cache, result |-> threw, invoked |-> TRUE]
    ELSE [cache |-> cacheSet(cache, cacheKeyOf(key), settled.value,
                             IF Has(settled.ttl) THEN Val(settled.ttl) ELSE ttl),
          result |-> bareValue(settled.value), invoked |-> TRUE]

\* lines 71-93; the values cached by this service are arrays, which are truthy
\* at line 78 also when empty.  result is what the returned promise settles to,
\* invoked whether fn was called (line 82)
cached(cache, key, settled, ttl) ==
    IF cacheKeyOf(key) \in DOMAIN cache
    THEN [cache |-> cache, result |-> bareValue(cache[cacheKeyOf(key)].value),
          invoked |-> FALSE]
    ELSE IF settled.threw THEN [cache |-> cache, result |-> threw, invoked |-> TRUE]
    ELSE IF Has(settled.ttl)
         THEN [cache |-> IF Val(settled.ttl) > 0
                         THEN cacheSet(cache, cacheKeyOf(key), settled.value, Val(settled.ttl))
                         ELSE cache,
               result |-> bareValue(settled.value), invoked |-> TRUE]
    ELSE [cache |-> cacheSet(cache, cacheKeyOf(key), settled.value, ttl),
          result |-> bareValue(settled.value), invoked |-> TRUE]

\* the cache after elapsed milliseconds: an entry is gone once its ttl has run
\* out; ttl holds what is left of it.  Every entry of this service has a ttl
elapse(cache, elapsed) ==
    [k \in {j \in DOMAIN cache : cache[j].ttl > elapsed} |->
        [value |-> cache[k].value, ttl |-> cache[k].ttl - elapsed]]

\* lines 182-184: the day of now moved by dayOffset, at hour 12 % (hour + 1)
dateKey(now_, dayOffset) ==
    (now_ \div Day + dayOffset) * Day + (12 % ((now_ % Day) \div Hour + 1)) * Hour

\* line 186
scheduleCacheKey(routeId, stopId, now_, dayOffset) ==
    "schedule-" \o routeId \o "-" \o stopId \o "-" \o ToString(dateKey(now_, dayOffset))

\* line 302
scheduleTtl == 12 * Hour

\* lines 187-303: the lookup through the cache; queryFails says whether the
\* database query of lines 189-299 throws when it is run
cachedSchedule(cache, now_, routeId, stopId, dayOffset, queryFails) ==
    cached(cache, scheduleCacheKey(routeId, stopId, now_, dayOffset),
           IF queryFails THEN threw
           ELSE bareValue(getScheduleForRouteAtStop(now_, routeId, stopId, dayOffset)),
           scheduleTtl)

(***************************************************************************)
(* getTripUpdates, gtfs.service.ts 443-517: the lookup built from the      *)
(* feed entities, a JavaScript object indexed by string keys.              *)
(***************************************************************************)
\* lines 508-510
tripUpdateKey(tripUpdate) ==
    IF Has(tripUpdate.trip.startDate)
    THEN tripUpdate.trip.tripId \o "_" \o Val(tripUpdate.trip.startDate)
    ELSE tripUpdate.trip.tripId

RECURSIVE filterTripUpdates(_, _, _)
\* lines 500-514: a later entity with the same key overwrites an earlier one
filterTripUpdates(entities, tripIds, filteredTripUpdates) ==
    IF entities = <<>> THEN filteredTripUpdates
    ELSE LET entity == Head(entities)
         IN  filterTripUpdates(Tail(entities), tripIds,
                IF Has(entity.tripUpdate) /\ Val(entity.tripUpdate).trip.tripId \in tripIds
                THEN [k \in DOMAIN filteredTripUpdates \cup {tripUpdateKey(Val(entity.tripUpdate))} |->
                         IF k = tripUpdateKey(Val(entity.tripUpdate))
                         THEN Val(entity.tripUpdate) ELSE filteredTripUpdates[k]]
                ELSE filteredTripUpdates)

EmptyObject == [k \in {} |-> None]

\* a lookup that uses the feed entities although the fetch has failed
getTripUpdates_IgnoresFailure(entities, tripIds, rtOk) ==
    filterTripUpdates(entities, tripIds, EmptyObject)

\* rtOk = FALSE: no real-time source configured (446-448) or the fetch threw and
\* was caught at 608-613; both leave tripUpdates = {}
getTripUpdates(entities, tripIds, rtOk) ==
    IF rtOk THEN filterTripUpdates(entities, tripIds, EmptyObject) ELSE EmptyObject

\* tripUpdates[key], undefined for a missing key
lookup(tripUpdates, key) ==
    IF key \in DOMAIN tripUpdates THEN Some(tripUpdates[key]) ELSE None

(***************************************************************************)
(* getUpcomingTripsForRoutesAtStops, gtfs.service.ts 587-695               *)
(***************************************************************************)
\* line 590
scheduleDates == <<-1, 0, 1>>

\* line 640
feasiblyActiveWindow == 14400000

\* A Date object: obj is the identity of the object (=== on two Dates compares
\* identities), ms is getTime()
NewDate(obj, ms) == [obj |-> obj, ms |-> ms]

\* lines 666-669: ts.arrivalTime === arrivalTime on Date objects
strictEquals(date1, date2) == date1.obj = date2.obj

\* lines 596-599: routes.map starts every lookup; each reads the cache (line 77)
\* before any of them has a result to write, so all of them see the cache as it
\* was when the iteration began.  failing holds the positions whose query throws
lookups(cache, now_, routes_, dayOffset, failing) ==
    [i \in 1..Len(routes_) |->
        cachedSchedule(cache, now_, routes_[i].routeId, routes_[i].stopId,
                       dayOffset, i \in failing)]

\* the positions whose lookup rejected; Promise.all rejects when there is one
rejectedLookups(ls) == {i \in DOMAIN ls : ls[i].result.threw}

\* the cache once every lookup of the iteration has settled
cacheAfter(cache, ls) ==
    [k \in DOMAIN cache \cup UNION {DOMAIN ls[i].cache : i \in DOMAIN ls} |->
        IF k \in DOMAIN cache THEN cache[k]
        ELSE ls[CHOOSE i \in DOMAIN ls : k \in DOMAIN ls[i].cache].cache[k]]

RECURSIVE flatSchedules(_, _)
\* lines 595-601: the results of Promise.all, then flat(): route order, then
\* row order
flatSchedules(ls, i) ==
    IF i > Len(ls) THEN <<>>
    ELSE ls[i].result.value \o flatSchedules(ls, i + 1)

\* lines 616-618
findTripUpdate(tripUpdates, trip_) ==
    IF Has(lookup(tripUpdates, trip_.trip_id \o "_" \o trip_.start_date))
    THEN lookup(tripUpdates, trip_.trip_id \o "_" \o trip_.start_date)
    ELSE lookup(tripUpdates, trip_.trip_id)

\* lines 621-623: the predicate of find
stopUpdateMatches(update, trip_) ==
    \/ (Has(update.stopSequence) /\ Val(update.stopSequence) = trip_.stop_sequence)
    \/ (Has(update.stopId) /\ Val(update.stopId) = trip_.stop_id)

\* lines 620-624: Array.prototype.find returns the first element that matches
findStopTimeUpdate(tripUpdate, trip_) ==
    IF ~Has(tripUpdate) THEN None
    ELSE LET updates == Val(tripUpdate).stopTimeUpdate
             hits == {i \in 1..Len(updates) : stopUpdateMatches(updates[i], trip_)}
         IN  IF hits = {} THEN None
             ELSE Some(updates[CHOOSE i \in hits : \A j \in hits : i <= j])

\* lines 636-640
tripIsFeasiblyActive(arrivalMs, departureMs, now_) ==
    Min(Abs(arrivalMs - now_), Abs(departureMs - now_)) < feasiblyActiveWindow

\* line 647: tripUpdate?.trip?.startDate === trip.start_date
sameStartDate(tripUpdate, trip_) ==
    Has(tripUpdate) /\ Has(Val(tripUpdate).trip.startDate)
    /\ Val(Val(tripUpdate).trip.startDate) = trip_.start_date

\* no gate: every matched cancellation or skip is applied
cancellationApplies_Ungated(tripUpdate, trip_, arrivalMs, departureMs, now_) == TRUE

\* lines 645-648: the gate in front of the cancellation and skip rules
cancellationApplies(tripUpdate, trip_, arrivalMs, departureMs, now_) ==
    tripIsFeasiblyActive(arrivalMs, departureMs, now_) \/ sameStartDate(tripUpdate, trip_)

\* lines 664-671
isDuplicate(tripStops_, trip_, arrivalTime, departureTime) ==
    \E i \in 1..Len(tripStops_) :
        /\ tripStops_[i].tripId = trip_.trip_id
        /\ strictEquals(tripStops_[i].arrivalTime, arrivalTime)
        /\ strictEquals(tripStops_[i].departureTime, departureTime)

\* a callback that also drops an occurrence whose trip update has no stop update
\* for its stop
outcomeOf_NeedsStopUpdate(tripStops_, trip_, tripUpdate, stu, arrivalTime, departureTime, now_) ==
    IF departureTime.ms < now_ THEN "past"
    ELSE IF Has(tripUpdate) /\ ~Has(stu) THEN "skipped"
    ELSE "pushed"

\* lines 629-674: what the forEach callback does with one occurrence
outcomeOf(tripStops_, trip_, tripUpdate, stu, arrivalTime, departureTime, now_) ==
    IF departureTime.ms < now_ THEN "past"
    ELSE IF cancellationApplies(tripUpdate, trip_, arrivalTime.ms, departureTime.ms, now_)
            /\ Has(tripUpdate) /\ Val(tripUpdate).trip.scheduleRelationship = "CANCELED"
         THEN "canceled"
    ELSE IF cancellationApplies(tripUpdate, trip_, arrivalTime.ms, departureTime.ms, now_)
            /\ Has(stu) /\ Val(stu).scheduleRelationship = "SKIPPED"
         THEN "skipped"
    ELSE IF isDuplicate(tripStops_, trip_, arrivalTime, departureTime) THEN "duplicate"
    ELSE "pushed"

\* lines 615-691: the forEach callback; acc holds tripStops and the history, n is
\* the number of the callback invocation within the whole call (it names the
\* Date objects this invocation of resolveTripTimes creates)
processTrip(acc, trip_, tripUpdates, now_, n) ==
    LET tripUpdate == findTripUpdate(tripUpdates, trip_)
        stu == findStopTimeUpdate(tripUpdate, trip_)
        times == resolveTripTimes(trip_, stu)
        arrivalTime == NewDate(<<n, "arrivalTime">>, times.arrivalTime)
        departureTime == NewDate(<<n, "departureTime">>, times.departureTime)
        outcome == outcomeOf(acc.tripStops, trip_, tripUpdate, stu, arrivalTime, departureTime, now_)
    IN  [tripStops |->
            IF outcome = "pushed"
            THEN Append(acc.tripStops,
                    [tripId |-> trip_.trip_id, routeId |-> trip_.route_id,
                     stopId |-> trip_.stop_id, arrivalTime |-> arrivalTime,
                     departureTime |-> departureTime, isRealtime |-> times.isRealtime])
            ELSE acc.tripStops,
         visited |-> Append(acc.visited,
                    [trip |-> trip_, tripUpdate |-> tripUpdate, stopTimeUpdate |-> stu,
                     arrivalTime |-> times.arrivalTime, departureTime |-> times.departureTime,
                     isRealtime |-> times.isRealtime, outcome |-> outcome])]

RECURSIVE forEachTrip(_, _, _, _)
forEachTrip(acc, trips, tripUpdates, now_) ==
    IF trips = <<>> THEN acc
    ELSE forEachTrip(processTrip(acc, Head(trips), tripUpdates, now_, Len(acc.visited) + 1),
                     Tail(trips), tripUpdates, now_)

tripIdsOf(trips) == {trips[i].trip_id : i \in 1..Len(trips)}

\* lines 602-692: one iteration of the loop over scheduleDates, behind the
\* static lookups
processScheduleDate(acc, now_, trips, entities, rtOk) ==
    LET tripUpdates == getTripUpdates(entities, tripIdsOf(trips), rtOk)
    IN  forEachTrip(acc, trips, tripUpdates, now_)

(***************************************************************************)
(* Specification SpecResolve: resolveTripTimes applied to one occurrence   *)
(* and one optional stop-time update drawn from bounded sets.              *)
(***************************************************************************)
\* scheduled at 10:00:00; the third and fourth occurrence arrive after they depart
ResolveTrips ==
    { [arrival_time |-> 10 * Hour, departure_time |-> 10 * Hour],
      [arrival_time |-> 10 * Hour, departure_time |-> 10 * Hour + 60000],
      [arrival_time |-> 10 * Hour + 60000, departure_time |-> 10 * Hour],
      [arrival_time |-> 12 * Hour, departure_time |-> 10 * Hour] }

\* delays in seconds: none, zero, small, exactly 90 minutes, just above, negative
ResolveDelays == {None, Some(0), Some(30), Some(5400), Some(5401), Some(-60)}

\* absolute times in seconds: on schedule, 30 s late, exactly 90 minutes late,
\* one second more, and more than 90 minutes early
ResolveTimes == {None, Some(36000), Some(36030), Some(41400), Some(41401), Some(30599)}

ResolveEvents == {None} \cup {Some([delay |-> d, time |-> t]) : d \in ResolveDelays, t \in ResolveTimes}

ResolveStopTimeUpdates ==
    {None} \cup {Some([stopSequence |-> Some(1), stopId |-> None, arrival |-> a,
                       departure |-> d, scheduleRelationship |-> "SCHEDULED"]) :
                    a \in ResolveEvents, d \in ResolveEvents}

ReconIdle ==
    /\ now = 0 /\ routes = <<>> /\ feedEntities = <<>>
    /\ dayIndex = 0 /\ tripStops = <<>> /\ visited = <<>>
    /\ cacheManager = <<>> /\ callOutcome = [status |-> "idle", failed |-> {}]
    /\ agencyTimezone = 0 /\ calendar = {} /\ calendarDates = {} /\ lastCached = None

AggIdle == options = None /\ upcomingTrips = <<>> /\ clock = 0 /\ schedule = None

SubIdle ==
    /\ upstream = None /\ attached = {} /\ received = <<>>
    /\ execs = <<>> /\ metrics = <<>> /\ observable = "idle"
    /\ changes = 0 /\ awaiting = {}

ResolveIdle == trip = None /\ stopTimeUpdate = None /\ resolved = None

ParseIdle == routeStopPairsRaw = <<>> /\ routeStopPairs = <<>>

\* no entry point has thrown and the provider has not been called
ServiceIdle == thrown = None /\ providerCalls = 0

ResolveInit ==
    /\ trip \in ResolveTrips
    /\ stopTimeUpdate \in ResolveStopTimeUpdates
    /\ resolved = None
    /\ ReconIdle /\ AggIdle /\ SubIdle /\ ParseIdle /\ ServiceIdle

CallResolveTripTimes ==
    /\ resolved = None
    /\ resolved' = Some(resolveTripTimes(trip, stopTimeUpdate))
    /\ UNCHANGED <<trip, stopTimeUpdate, reconVars, aggVars, subVars, parseVars, serviceVars>>

ResolveNext == CallResolveTripTimes

SpecResolve == ResolveInit /\ [][ResolveNext]_vars

\* the times after the adjustment and the clamp, before the confidence filter
AdjustedArrival == resolveArrival(trip, stopTimeUpdate)
AdjustedDeparture == clampDeparture(AdjustedArrival, resolveDeparture(trip, stopTimeUpdate))
AdjustedDeviation ==
    Max(Abs(AdjustedDeparture - trip.departure_time), Abs(AdjustedArrival - trip.arrival_time))

\* C1: resolveTripTimes never returns arrivalTime > departureTime, for every
\* occurrence and every optional stop-time update, on the adjusted path and on
\* the low-confidence path.
C1_ArrivalNotAfterDeparture ==
    Has(resolved) => Val(resolved).arrivalTime <= Val(resolved).departureTime

\* C2: a deviation of the adjusted times from the schedule strictly greater than
\* 90 minutes returns exactly the scheduled times with isRealtime = FALSE, for
\* every shape of stop update; a deviation of exactly 90 minutes keeps the
\* adjusted times.
C2_LowConfidenceReturnsSchedule ==
    Has(resolved) =>
        /\ AdjustedDeviation > 90 * 60 * 1000 =>
              Val(resolved) = [arrivalTime |-> trip.arrival_time,
                               departureTime |-> trip.departure_time,
                               isRealtime |-> FALSE]
        /\ AdjustedDeviation = 90 * 60 * 1000 =>
              /\ Val(resolved).arrivalTime = AdjustedArrival
              /\ Val(resolved).departureTime = AdjustedDeparture
              /\ Val(resolved).isRealtime = Has(stopTimeUpdate)

\* C2 witness: a stop update whose absolute arrival time is 90 minutes and one
\* second late has been resolved to the scheduled times
C2_Witness ==
    /\ Has(resolved) /\ Has(stopTimeUpdate)
    /\ timeOf(stopTimeUpdate, "arrival") = Some(41401)
    /\ AdjustedDeviation > 90 * 60 * 1000
    /\ Val(resolved).arrivalTime = trip.arrival_time
    /\ ~Val(resolved).isRealtime

(***************************************************************************)
(* Specification SpecRecon: one call of getUpcomingTripsForRoutesAtStops.  *)
(* Each await of the loop over scheduleDates is one step; the real-time    *)
(* fetch of an iteration may fail or have nothing to fetch from.           *)
(***************************************************************************)
\* 2008-01-04 at 06:00:00, at 06:00:01 and at 23:00:00
Nows == {Day + 6 * Hour, Day + 6 * Hour + 1000, Day + 23 * Hour}

StagecoachPair == [routeId |-> "STBA", stopId |-> "STAGECOACH"]
AirportPair == [routeId |-> "AAMV", stopId |-> "BEATTY_AIRPORT"]

Queries ==
    { <<StagecoachPair>>, <<AirportPair>>, <<StagecoachPair, AirportPair>>,
      <<StagecoachPair, StagecoachPair>> }

\* arrival or departure events of a stop update: a delay, a zero delay, an absolute
\* time 30 s after the 06:30 arrival of 2008-01-04, an absolute time 91 minutes
\* after it
FeedArrivals ==
    { None,
      Some([delay |-> Some(30), time |-> None]),
      Some([delay |-> Some(0), time |-> None]),
      Some([delay |-> None, time |-> Some(109830)]),
      Some([delay |-> None, time |-> Some(115260)]) }

FeedDepartures == {None, Some([delay |-> Some(30), time |-> None])}

\* how a stop update names its stop: by stopId, by stopSequence, or a stop that
\* is not in the timetable
FeedStopKeys ==
    { [stopSequence |-> None, stopId |-> Some("STAGECOACH")],
      [stopSequence |-> None, stopId |-> Some("BEATTY_AIRPORT")],
      [stopSequence |-> Some(1), stopId |-> None],
      [stopSequence |-> None, stopId |-> Some("NANAA")] }

FeedStopTimeUpdates ==
    { [stopSequence |-> k.stopSequence, stopId |-> k.stopId, arrival |-> a,
       departure |-> d, scheduleRelationship |-> r] :
        k \in FeedStopKeys, a \in FeedArrivals, d \in FeedDepartures,
        r \in {"SCHEDULED", "SKIPPED"} }

FeedTripUpdates ==
    { [trip |-> [tripId |-> t, startDate |-> sd, scheduleRelationship |-> r],
       stopTimeUpdate |-> u] :
        t \in {"STBA", "AAMV1", "STBA_OVERNIGHT"},
        sd \in {None, Some("20080104"), Some("20080105")},
        r \in {"SCHEDULED", "CANCELED"},
        u \in {<<>>} \cup {<<x>> : x \in FeedStopTimeUpdates} }

StopUpdate(stopSequence, stopId, arrival, scheduleRelationship) ==
    [stopSequence |-> stopSequence, stopId |-> stopId, arrival |-> arrival,
     departure |-> None, scheduleRelationship |-> scheduleRelationship]

\* trip updates of STBA with two stop updates for STAGECOACH, its stop of sequence
\* 1: one names the stop by stopId (alone, or with the sequence 5 of another
\* visit) and is 30 s late, the other names it by stopSequence, in both orders
FeedTwoStopUpdates ==
    { [trip |-> [tripId |-> "STBA", startDate |-> sd, scheduleRelationship |-> "SCHEDULED"],
       stopTimeUpdate |-> u] :
        sd \in {None, Some("20080104")},
        u \in UNION { {<<byId, bySeq>>, <<bySeq, byId>>} :
                byId \in {StopUpdate(seq, Some("STAGECOACH"),
                                     Some([delay |-> Some(30), time |-> None]), "SCHEDULED") :
                             seq \in {None, Some(5)}},
                bySeq \in {StopUpdate(Some(1), None, Some([delay |-> Some(60), time |-> None]),
                                      "SCHEDULED"),
                           StopUpdate(Some(1), None, None, "SKIPPED")} } }

\* two trip updates of one trip: the first 30 s late, the second 60 s late, with
\* service dates of two days, the same day, or one of them without a date
FeedTwoTripUpdates ==
    { << [tripUpdate |-> Some(
            [trip |-> [tripId |-> t, startDate |-> sd[1], scheduleRelationship |-> "SCHEDULED"],
             stopTimeUpdate |-> <<StopUpdate(None, Some("STAGECOACH"),
                                    Some([delay |-> Some(30), time |-> None]), "SCHEDULED")>>])],
         [tripUpdate |-> Some(
            [trip |-> [tripId |-> t, startDate |-> sd[2], scheduleRelationship |-> "SCHEDULED"],
             stopTimeUpdate |-> <<StopUpdate(None, Some("STAGECOACH"),
                                    Some([delay |-> Some(60), time |-> None]), "SCHEDULED")>>])] >> :
        t \in {"STBA", "STBA_OVERNIGHT"},
        sd \in { <<Some("20080104"), Some("20080105")>>, <<Some("20080105"), Some("20080104")>>,
                 <<None, Some("20080104")>>, <<Some("20080105"), None>>,
                 <<Some("20080104"), Some("20080104")>> } }

\* a feed: no entity, an entity that is no trip update, one trip update, or two
Feeds ==
    {<<>>, <<[tripUpdate |-> None]>>}
    \cup {<<[tripUpdate |-> Some(tu)]>> : tu \in FeedTripUpdates \cup FeedTwoStopUpdates}
    \cup FeedTwoTripUpdates

ReconInit ==
    /\ now \in Nows
    /\ routes \in Queries
    /\ feedEntities \in Feeds
    /\ dayIndex = 1
    /\ tripStops = <<>>
    /\ visited = <<>>
    /\ cacheManager = <<>>
    /\ callOutcome = [status |-> "running", failed |-> {}]
    /\ agencyTimezone = 0
    /\ calendar = EveryDay
    /\ calendarDates = {}
    /\ lastCached = None
    /\ ResolveIdle /\ AggIdle /\ SubIdle /\ ParseIdle /\ ServiceIdle

\* one iteration of the for loop, lines 594-692: the static lookups of all
\* routes, of which any may fail, then the reconciliation with the real-time
\* data, whose fetch may fail (rtOk = FALSE)
ProcessScheduleDate ==
    /\ callOutcome.status = "running"
    /\ dayIndex \in 1..Len(scheduleDates)
    /\ \E failing \in SUBSET (1..Len(routes)) : \E rtOk \in BOOLEAN :
        LET ls == lookups(cacheManager, now, routes, scheduleDates[dayIndex], failing)
            acc == processScheduleDate([tripStops |-> tripStops, visited |-> visited],
                                       now, flatSchedules(ls, 1), feedEntities, rtOk)
        IN  /\ cacheManager' = cacheAfter(cacheManager, ls)
            /\ IF rejectedLookups(ls) # {}
               THEN /\ callOutcome' = [status |-> "rejected", failed |-> rejectedLookups(ls)]
                    /\ UNCHANGED <<dayIndex, tripStops, visited>>
               ELSE /\ tripStops' = acc.tripStops
                    /\ visited' = acc.visited
                    /\ dayIndex' = dayIndex + 1
                    /\ callOutcome' =
                          [status |-> IF dayIndex = Len(scheduleDates)
                                      THEN "returned" ELSE "running",
                           failed |-> {}]
    /\ UNCHANGED <<now, routes, feedEntities, agencyTimezone, calendar, calendarDates,
                   lastCached, resolveVars, aggVars, subVars, parseVars, serviceVars>>

\* line 694: return tripStops
Returned == dayIndex = Len(scheduleDates) + 1

ReconNext == ProcessScheduleDate

SpecRecon == ReconInit /\ [][ReconNext]_vars

\* the occurrence handled by the n-th callback invocation is in the result list
InResult(n) ==
    \E k \in 1..Len(tripStops) : tripStops[k].arrivalTime.obj = <<n, "arrivalTime">>

\* the trip update carries a stop update for the occurrence's stop
HasStopUpdateFor(tripUpdate, trip_) ==
    /\ Has(tripUpdate)
    /\ \E k \in 1..Len(Val(tripUpdate).stopTimeUpdate) :
          LET u == Val(tripUpdate).stopTimeUpdate[k]
          IN  \/ u.stopSequence = Some(trip_.stop_sequence)
              \/ u.stopId = Some(trip_.stop_id)

\* the deviation from schedule of the adjusted times of a handled occurrence
DeviationOf(v) ==
    LET a == resolveArrival(v.trip, v.stopTimeUpdate)
        d == clampDeparture(a, resolveDeparture(v.trip, v.stopTimeUpdate))
    IN  Max(Abs(d - v.trip.departure_time), Abs(a - v.trip.arrival_time))

\* C3: with a deviation of at most 90 minutes, isRealtime is TRUE if and only if
\* a stop-time update was matched for the occurrence, also when the update
\* changes no time; a trip update matched without a stop update for the stop
\* gives isRealtime = FALSE.
C3_RealtimeIffStopUpdateMatched ==
    \A n \in 1..Len(visited) :
        LET v == visited[n]
        IN  /\ DeviationOf(v) <= 90 * 60 * 1000 =>
                  (v.isRealtime <=> HasStopUpdateFor(v.tripUpdate, v.trip))
            /\ (Has(v.tripUpdate) /\ ~HasStopUpdateFor(v.tripUpdate, v.trip)) => ~v.isRealtime

\* C3 witness: a matched stop update without arrival and departure left the
\* scheduled times as they are and the occurrence is returned as real-time
C3_Witness ==
    /\ \E n \in 1..Len(visited) :
          LET v == visited[n]
          IN  /\ Has(v.stopTimeUpdate)
              /\ Val(v.stopTimeUpdate).arrival = None
              /\ Val(v.stopTimeUpdate).departure = None
              /\ v.arrivalTime = v.trip.arrival_time
              /\ v.departureTime = v.trip.departure_time
              /\ v.isRealtime /\ InResult(n)
    /\ Returned

\* a matched update that cancels the trip or skips the stop
Cancels(v) ==
    /\ Has(v.tripUpdate)
    /\ \/ Val(v.tripUpdate).trip.scheduleRelationship = "CANCELED"
       \/ (Has(v.stopTimeUpdate) /\ Val(v.stopTimeUpdate).scheduleRelationship = "SKIPPED")

\* resolved arrival or departure less than 4 hours from now
WithinFourHours(v) ==
    \/ Abs(v.arrivalTime - now) < 4 * 60 * 60 * 1000
    \/ Abs(v.departureTime - now) < 4 * 60 * 60 * 1000

\* C4: a CANCELED trip update or SKIPPED stop update without service date
\* removes an occurrence only if its resolved arrival or departure is less than
\* 4 hours from now; an update whose service date equals the occurrence's
\* service date removes it however far from now it is.
C4_AmbiguousCancellationGate ==
    \A n \in 1..Len(visited) :
        LET v == visited[n]
        IN  Cancels(v) =>
              /\ (~Has(Val(v.tripUpdate).trip.startDate)
                    /\ v.departureTime >= now /\ ~WithinFourHours(v)) => InResult(n)
              /\ (~Has(Val(v.tripUpdate).trip.startDate)
                    /\ v.departureTime >= now /\ WithinFourHours(v)) => ~InResult(n)
              /\ Val(v.tripUpdate).trip.startDate = Some(v.trip.start_date) => ~InResult(n)

\* C4 witness: one date-less cancellation has removed the occurrence that is
\* within 4 hours and has left the occurrence of the same trip a day later
C4_Witness ==
    \E n, m \in 1..Len(visited) :
        /\ visited[n].trip.trip_id = visited[m].trip.trip_id
        /\ Cancels(visited[n]) /\ Cancels(visited[m])
        /\ visited[n].tripUpdate = visited[m].tripUpdate
        /\ ~Has(Val(visited[n].tripUpdate).trip.startDate)
        /\ visited[n].departureTime >= now
        /\ WithinFourHours(visited[n]) /\ ~InResult(n)
        /\ ~WithinFourHours(visited[m]) /\ InResult(m)

\* the callback invocations whose occurrence of trip t is in the result list
ResultVisitsOf(t) == {n \in 1..Len(visited) : visited[n].trip.trip_id = t /\ InResult(n)}

\* The scenario of C5: the feed is one date-less SCHEDULED trip update with one
\* stop update that gives an arrival (a time within 90 minutes of the nearer
\* occurrence's schedule, or only a delay of at most 90 minutes); two occurrences
\* of its trip on different service days are returned, n the nearer one, and the
\* update was fetched and matched for both.
C5_Scenario(n, m) ==
    /\ Returned
    /\ Len(feedEntities) = 1 /\ Has(feedEntities[1].tripUpdate)
    /\ LET tu == Val(feedEntities[1].tripUpdate)
       IN  /\ ~Has(tu.trip.startDate) /\ tu.trip.scheduleRelationship = "SCHEDULED"
           /\ Len(tu.stopTimeUpdate) = 1
           /\ tu.stopTimeUpdate[1].scheduleRelationship = "SCHEDULED"
           /\ Has(tu.stopTimeUpdate[1].arrival) /\ ~Has(tu.stopTimeUpdate[1].departure)
           /\ ResultVisitsOf(tu.trip.tripId) = {n, m}
           /\ visited[n].trip.start_date # visited[m].trip.start_date
           /\ visited[n].trip.arrival_time < visited[m].trip.arrival_time
           /\ visited[n].tripUpdate = Some(tu) /\ visited[m].tripUpdate = Some(tu)
           /\ visited[n].stopTimeUpdate = Some(tu.stopTimeUpdate[1])
           /\ visited[m].stopTimeUpdate = Some(tu.stopTimeUpdate[1])
           /\ LET ev == Val(tu.stopTimeUpdate[1].arrival)
              IN  \/ /\ Has(ev.time)
                     /\ Abs(Val(ev.time) * 1000 - visited[n].trip.arrival_time) <= 90 * 60 * 1000
                  \/ /\ ~Has(ev.time) /\ Has(ev.delay)
                     /\ Abs(Val(ev.delay)) <= 90 * 60

\* C5: of two occurrences of one trip on different service days and one
\* date-less update that applies to the nearer day, exactly the nearer one is
\* returned with isRealtime = TRUE and the other one with its static times and
\* isRealtime = FALSE, whether the stop update carries an absolute time or only
\* a delay.
C5_OnlyNearerOccurrenceIsRealtime ==
    \A n, m \in 1..Len(visited) :
        C5_Scenario(n, m) =>
            /\ visited[n].isRealtime
            /\ ~visited[m].isRealtime
            /\ visited[m].arrivalTime = visited[m].trip.arrival_time
            /\ visited[m].departureTime = visited[m].trip.departure_time

\* the part of C5 about a stop update that carries an absolute time
C5_AbsoluteTimeOnly ==
    \A n, m \in 1..Len(visited) :
        (C5_Scenario(n, m) /\ Has(Val(visited[n].stopTimeUpdate).arrival[1].time)) =>
            /\ visited[n].isRealtime
            /\ ~visited[m].isRealtime
            /\ visited[m].arrivalTime = visited[m].trip.arrival_time
            /\ visited[m].departureTime = visited[m].trip.departure_time

C5_AbsoluteTimeReached ==
    \E n, m \in 1..Len(visited) :
        C5_Scenario(n, m) /\ Has(Val(visited[n].stopTimeUpdate).arrival[1].time)

\* C6: the returned list never holds two entries with the same tripId and equal
\* arrival and departure instants.
C6_NoDuplicateEntries ==
    \A i, j \in 1..Len(tripStops) :
        (/\ i # j
         /\ tripStops[i].tripId = tripStops[j].tripId
         /\ tripStops[i].arrivalTime.ms = tripStops[j].arrivalTime.ms
         /\ tripStops[i].departureTime.ms = tripStops[j].departureTime.ms) => FALSE

(***************************************************************************)
(* getUpcomingTrips, schedule.service.ts 46-92                             *)
(***************************************************************************)
\* lines 56-58: routes.find(...).offset, the first query with the trip's pair
findOffset(routes_, trip_) ==
    LET hits == {i \in 1..Len(routes_) :
                    routes_[i].routeId = trip_.routeId /\ routes_[i].stopId = trip_.stopId}
    IN  routes_[CHOOSE i \in hits : \A j \in hits : i <= j].offset

\* a mapping that moves the arrival only
withOffset_ArrivalOnly(routes_, trip_) ==
    [tripId |-> trip_.tripId, routeId |-> trip_.routeId, stopId |-> trip_.stopId,
     arrivalTime |-> (trip_.arrivalTime.ms \div 1000) + findOffset(routes_, trip_),
     departureTime |-> trip_.departureTime.ms \div 1000,
     isRealtime |-> trip_.isRealtime]

\* lines 55-67: the Dates as epoch seconds, plus the offset of the trip's query
withOffset(routes_, trip_) ==
    [tripId |-> trip_.tripId, routeId |-> trip_.routeId, stopId |-> trip_.stopId,
     arrivalTime |-> (trip_.arrivalTime.ms \div 1000) + findOffset(routes_, trip_),
     departureTime |-> (trip_.departureTime.ms \div 1000) + findOffset(routes_, trip_),
     isRealtime |-> trip_.isRealtime]

\* a sort key that ignores sortByDeparture
sortKeyOf_AlwaysArrival(trip_, sortByDeparture) == trip_.arrivalTime

\* line 53 and trip[sortKey]
sortKeyOf(trip_, sortByDeparture) ==
    IF sortByDeparture THEN trip_.departureTime ELSE trip_.arrivalTime

\* line 68: trip[sortKey] > Date.now() / 1000, clock in milliseconds
isUpcoming(trip_, sortByDeparture, clock_) == sortKeyOf(trip_, sortByDeparture) * 1000 > clock_

RECURSIVE insertSorted(_, _, _)
\* behind every element that does not sort after trip_: the sort is stable
insertSorted(sorted, trip_, sortByDeparture) ==
    IF sorted = <<>> THEN <<trip_>>
    ELSE IF sortKeyOf(Head(sorted), sortByDeparture) - sortKeyOf(trip_, sortByDeparture) <= 0
         THEN <<Head(sorted)>> \o insertSorted(Tail(sorted), trip_, sortByDeparture)
         ELSE <<trip_>> \o sorted

RECURSIVE sortTrips(_, _)
\* line 69: Array.prototype.sort with (a, b) => a[sortKey] - b[sortKey]
sortTrips(trips, sortByDeparture) ==
    IF trips = <<>> THEN <<>>
    ELSE insertSorted(sortTrips(SubSeq(trips, 1, Len(trips) - 1), sortByDeparture),
                      trips[Len(trips)], sortByDeparture)

\* line 72
pairKey(trip_) == trip_.routeId \o "-" \o trip_.stopId

\* the filter without pairs.delete(key): every trip passes
nextPerRoute_NoDelete(trips) == trips

\* lines 74-84: a trip passes when its key is still in the set, which it leaves
nextPerRoute(trips) ==
    LET firstOfKey(i) == \A j \in 1..(i - 1) : pairKey(trips[j]) # pairKey(trips[i])
        kept == {i \in 1..Len(trips) : firstOfKey(i)}
        RECURSIVE pick(_)
        pick(i) == IF i > Len(trips) THEN <<>>
                   ELSE (IF i \in kept THEN <<trips[i]>> ELSE <<>>) \o pick(i + 1)
    IN  pick(1)

\* line 87: Array.prototype.slice(0, limit); a negative limit counts from the end
slice(trips, limit) ==
    IF limit >= 0 THEN SubSeq(trips, 1, Min(limit, Len(trips)))
    ELSE SubSeq(trips, 1, Max(Len(trips) + limit, 0))

\* lines 54-69
upcomingSorted(upcomingTrips_, options_, clock_) ==
    sortTrips(
        SelectSeq([i \in 1..Len(upcomingTrips_) |-> withOffset(options_.routes, upcomingTrips_[i])],
                  LAMBDA t : isUpcoming(t, options_.sortByDeparture, clock_)),
        options_.sortByDeparture)

getUpcomingTrips(upcomingTrips_, options_, clock_) ==
    LET sorted == upcomingSorted(upcomingTrips_, options_, clock_)
        trips == IF options_.listMode = "nextPerRoute" THEN nextPerRoute(sorted) ELSE sorted
    IN  [trips |-> slice(trips, options_.limit)]

(***************************************************************************)
(* Specification SpecAgg: one call of getUpcomingTrips on a provider       *)
(* result drawn from bounded sets.  The provider returns trips of the      *)
(* queried pairs only, as getUpcomingTripsForRoutesAtStops does.           *)
(***************************************************************************)
\* Date.now() at line 68, in milliseconds
AggClock == 100000 * 1000

\* two pairs whose route and stop ids contain '-', and a third one
AggPairs ==
    { [routeId |-> "a-b", stopId |-> "c"],
      [routeId |-> "a", stopId |-> "b-c"],
      [routeId |-> "a", stopId |-> "c"] }

Query(routeId, stopId, offset) == [routeId |-> routeId, stopId |-> stopId, offset |-> offset]

\* the queries of a request: all three pairs with different offsets, the same
\* pairs in another order, and a request that lists one pair twice
AggRoutes ==
    { <<Query("a-b", "c", 0), Query("a", "b-c", 60), Query("a", "c", -60)>>,
      <<Query("a", "c", -60), Query("a", "b-c", 60), Query("a-b", "c", 0)>>,
      <<Query("a", "c", 0), Query("a", "c", 60), Query("a-b", "c", 0), Query("a", "b-c", 0)>> }

AggOptions ==
    [feedCode : {FeedCode}, routes : AggRoutes, limit : {-1, 0, 1, 2}, sortByDeparture : BOOLEAN,
     listMode : {"sequential", "nextPerRoute"}]

MaxTrips == 3

AggTripIds == <<"T1", "T2", "T3", "T4">>

\* arrival and dwell of a trip in milliseconds after the clock: the second one
\* arrives before the third one and leaves after it
AggTimes == {<<60000, 0>>, <<60000, 90000>>, <<120000, 0>>}

\* the i-th trip of a provider result
AggTripStops(i) ==
    { [tripId |-> AggTripIds[i], routeId |-> p.routeId, stopId |-> p.stopId,
       arrivalTime |-> NewDate(<<i, "arrivalTime">>, AggClock + t[1]),
       departureTime |-> NewDate(<<i, "departureTime">>, AggClock + t[1] + t[2]),
       isRealtime |-> FALSE] :
        p \in AggPairs, t \in AggTimes }

AggResults ==
    UNION { {r \in [1..n -> UNION {AggTripStops(i) : i \in 1..n}] :
                \A i \in 1..n : r[i] \in AggTripStops(i)} : n \in 0..MaxTrips }

AggInit ==
    /\ options \in {Some(o) : o \in AggOptions}
    /\ upcomingTrips \in AggResults
    /\ clock = AggClock
    /\ schedule = None
    /\ ResolveIdle /\ ReconIdle /\ SubIdle /\ ParseIdle /\ ServiceIdle

\* lines 50-91: the provider is called and its result is turned into a snapshot
CallGetUpcomingTrips ==
    /\ schedule = None /\ Has(options) /\ thrown = None
    /\ providerCalls' = providerCalls + 1
    /\ schedule' = Some(getUpcomingTrips(upcomingTrips, Val(options), clock))
    /\ UNCHANGED <<options, upcomingTrips, clock, thrown,
                   resolveVars, reconVars, subVars, parseVars>>

AggNext == CallGetUpcomingTrips

SpecAgg == AggInit /\ [][AggNext]_vars

\* the trips of a pair that are upcoming: offset applied, sort key after the clock
UpcomingOfPair(routeId, stopId) ==
    {t \in {withOffset(Val(options).routes, upcomingTrips[i]) : i \in 1..Len(upcomingTrips)} :
        /\ t.routeId = routeId /\ t.stopId = stopId
        /\ (IF Val(options).sortByDeparture THEN t.departureTime ELSE t.arrivalTime) * 1000 > clock}

\* C7: with listMode = "nextPerRoute" the snapshot holds at most one trip per
\* (routeId, stopId) pair, and the trip kept for a pair has the smallest sort key
\* among the upcoming trips of that pair.
C7_NextPerRoute ==
    (Has(schedule) /\ Val(options).listMode = "nextPerRoute") =>
        LET trips == Val(schedule).trips
            key(t) == IF Val(options).sortByDeparture THEN t.departureTime ELSE t.arrivalTime
        IN  /\ \A i, j \in 1..Len(trips) :
                  (trips[i].routeId = trips[j].routeId /\ trips[i].stopId = trips[j].stopId)
                      => i = j
            /\ \A i \in 1..Len(trips) :
                  /\ trips[i] \in UpcomingOfPair(trips[i].routeId, trips[i].stopId)
                  /\ \A u \in UpcomingOfPair(trips[i].routeId, trips[i].stopId) :
                        key(trips[i]) <= key(u)

\* C7 witness: a pair with two upcoming trips of different sort keys is in the
\* snapshot with its earlier trip, next to the trip of a pair whose id holds '-'
C7_Witness ==
    /\ Has(schedule) /\ Val(options).listMode = "nextPerRoute"
    /\ Len(Val(schedule).trips) = 2
    /\ \E t, u \in UpcomingOfPair("a", "c") :
          /\ t.arrivalTime < u.arrivalTime /\ t.departureTime < u.departureTime
          /\ \E i \in 1..2 : Val(schedule).trips[i] = t
    /\ \E i \in 1..2 : Val(schedule).trips[i].routeId = "a-b"

(***************************************************************************)
(* subscribeToSchedule, schedule.service.ts 128-186.  The Observable's     *)
(* subscribe function (lines 142-185) runs once per execution: share()     *)
(* starts an execution when the first consumer attaches and ends it when   *)
(* the last one detaches or when the source errors.  A pass is one call of *)
(* updateSchedule; it is in flight from its start to the continuation      *)
(* behind the await of line 149.                                           *)
(***************************************************************************)
\* line 145: let currentSchedule: ScheduleUpdate | null = null
Null == [null |-> TRUE]
\* line 147: let trips, never assigned when getUpcomingTrips throws
Undefined == [undefined |-> TRUE]
\* getUpcomingTrips rejects
Thrown == [thrown |-> TRUE]

\* JSON.stringify: "null" for null, undefined for undefined, else the text of
\* the object, given here by the values of its properties in their order
jsonStringify(v) ==
    IF v = Null THEN <<"null">>
    ELSE IF v = Undefined THEN <<>>
    ELSE <<"{trips}", [i \in 1..Len(v.trips) |->
                          <<v.trips[i].tripId, v.trips[i].routeId, v.trips[i].stopId,
                            v.trips[i].arrivalTime, v.trips[i].departureTime,
                            v.trips[i].isRealtime>>]>>

\* the test of a pass that emits whatever it computed
shouldEmit_Always(currentSchedule, trips) == TRUE

\* lines 154-157
shouldEmit(currentSchedule, trips) ==
    currentSchedule = Null \/ jsonStringify(currentSchedule) # jsonStringify(trips)

\* delayTimeout is "armed" from setTimeout (168) until its callback has run
\* ("fired") or clearTimeout has cancelled it ("cleared"); interval is "unset"
\* until the callback assigns it (171), then "armed" until clearInterval.

\* a teardown that clears the periodic timer only
teardown_KeepsTimeout(exec) ==
    [exec EXCEPT !.interval = IF @ = "armed" THEN "cleared" ELSE @]

\* a teardown that clears the startup timeout only
teardown_KeepsInterval(exec) ==
    [exec EXCEPT !.delayTimeout = IF @ = "armed" THEN "cleared" ELSE @]

\* lines 178-184 without the metrics call: clearTimeout, clearInterval
teardown(exec) ==
    [exec EXCEPT !.delayTimeout = IF @ = "armed" THEN "cleared" ELSE @,
                 !.interval = IF @ = "armed" THEN "cleared" ELSE @]

\* a call of updateSchedule up to the await of line 149
newPass == [phase |-> "running", result |-> None]

\* an execution that leaves the first pass to the periodic timer
newExecution_WaitsForTimer ==
    [status |-> "open", currentSchedule |-> Null, delayTimeout |-> "armed",
     interval |-> "unset", passes |-> <<>>, emitted |-> <<>>, storedBy |-> <<>>]

\* lines 143-176: the state of an execution when the subscribe function returns;
\* emitted and storedBy are history: the snapshots handed to observer.next while
\* the execution was open, and the passes that assigned currentSchedule (158)
newExecution ==
    [status |-> "open", currentSchedule |-> Null, delayTimeout |-> "armed",
     interval |-> "unset", passes |-> <<newPass>>, emitted |-> <<>>, storedBy |-> <<>>]

nextNotification(trips) == [kind |-> "next", value |-> trips]
\* a failed pass that hands its unassigned trips to the consumers
errorNotification_AsSnapshot == nextNotification(Undefined)

\* line 151
errorNotification == [kind |-> "error"]

\* a subject that notifies one of its consumers only
notify_FirstOnly(received_, attached_, notification) ==
    [c \in DOMAIN received_ |->
        IF attached_ # {} /\ c = CHOOSE a \in attached_ : TRUE
        THEN Append(received_[c], notification) ELSE received_[c]]

\* Subject.next / Subject.error of share(): every attached consumer is notified
notify(received_, attached_, notification) ==
    [c \in DOMAIN received_ |->
        IF c \in attached_ THEN Append(received_[c], notification) ELSE received_[c]]

(***************************************************************************)
(* Specification SpecSub: one observable returned by subscribeToSchedule,  *)
(* its consumers, the timers and the passes of its executions.             *)
(***************************************************************************)
Consumers == {"c1", "c2"}

\* executions of the subscribe function and calls of updateSchedule in a run
MaxExecutions == 1
MaxPasses == 3

RECURSIVE passesStarted(_)
passesStarted(execs_) ==
    IF execs_ = <<>> THEN 0 ELSE Len(Head(execs_).passes) + passesStarted(Tail(execs_))

SubTrip == [tripId |-> "STBA", routeId |-> "STBA", stopId |-> "STAGECOACH",
            arrivalTime |-> 109800, departureTime |-> 109800, isRealtime |-> FALSE]

\* what getUpcomingTrips gives: no trips, one trip, or an exception
UpstreamValues == {[trips |-> <<>>], [trips |-> <<SubTrip>>], Thrown}

SubInit ==
    /\ upstream \in UpstreamValues
    /\ attached = {}
    /\ received = [c \in Consumers |-> <<>>]
    /\ execs = <<>>
    /\ metrics = [add |-> 0, remove |-> 0]
    /\ observable = "created"
    /\ changes = 0 /\ awaiting = {}
    /\ ResolveIdle /\ ReconIdle /\ AggIdle /\ ParseIdle /\ ServiceIdle

\* the static or real-time data behind getUpcomingTrips changes
UpstreamChanges ==
    /\ observable # "idle"
    /\ \E v \in UpstreamValues \ {upstream} : upstream' = v
    /\ UNCHANGED <<observable, attached, received, execs, metrics,
                   pollVars, resolveVars, reconVars, aggVars, parseVars, serviceVars>>

\* a consumer subscribes to the shared observable; the first one starts an
\* execution: metricsService.add (143), setTimeout (168), updateSchedule() (176)
Subscribe(c) ==
    /\ observable = "created"
    /\ c \notin attached
    /\ attached' = attached \cup {c}
    /\ received' = [received EXCEPT ![c] = <<>>]
    /\ IF attached = {}
       THEN /\ Len(execs) < MaxExecutions
            /\ passesStarted(execs) < MaxPasses
            /\ execs' = Append(execs, newExecution)
            /\ metrics' = [metrics EXCEPT !.add = @ + 1]
       ELSE UNCHANGED <<execs, metrics>>
    /\ UNCHANGED <<observable, upstream, pollVars, resolveVars, reconVars, aggVars, parseVars, serviceVars>>

\* a consumer unsubscribes; the last one runs the teardown of lines 178-184
Unsubscribe(c) ==
    /\ c \in attached
    /\ attached' = attached \ {c}
    /\ received' = [received EXCEPT ![c] = <<>>]
    /\ awaiting' = awaiting \ {c} /\ UNCHANGED changes
    /\ IF attached = {c}
       THEN /\ execs' = [execs EXCEPT ![Len(execs)] =
                            [teardown(@) EXCEPT !.status = "unsubscribed"]]
            /\ metrics' = [metrics EXCEPT !.remove = @ + 1]
       ELSE UNCHANGED <<execs, metrics>>
    /\ UNCHANGED <<observable, upstream, resolveVars, reconVars, aggVars, parseVars, serviceVars>>

\* lines 169-172: the startup delay has elapsed, the periodic timer starts
DelayElapses(e) ==
    /\ execs[e].delayTimeout = "armed"
    /\ execs' = [execs EXCEPT ![e].delayTimeout = "fired", ![e].interval = "armed"]
    /\ UNCHANGED <<observable, upstream, attached, received, metrics,
                   pollVars, resolveVars, reconVars, aggVars, parseVars, serviceVars>>

\* line 171: the periodic timer calls updateSchedule
IntervalTick(e) ==
    /\ execs[e].interval = "armed"
    /\ passesStarted(execs) < MaxPasses
    /\ execs' = [execs EXCEPT ![e].passes = Append(@, newPass)]
    /\ UNCHANGED <<observable, upstream, attached, received, metrics,
                   pollVars, resolveVars, reconVars, aggVars, parseVars, serviceVars>>

\* line 149: getUpcomingTrips reads the data; its promise is not settled yet
PassFetches(e, p) ==
    /\ execs[e].passes[p].phase = "running"
    /\ execs' = [execs EXCEPT ![e].passes[p] = [phase |-> "fetched", result |-> Some(upstream)]]
    /\ providerCalls' = providerCalls + 1
    /\ UNCHANGED <<observable, upstream, attached, received, metrics, thrown,
                   pollVars, resolveVars, reconVars, aggVars, parseVars>>

\* lines 150-160: the continuation of updateSchedule behind the await
PassCompletes(e, p) ==
    /\ execs[e].passes[p].phase = "fetched"
    /\ LET exec == execs[e]
           failed == Val(exec.passes[p].result) = Thrown
           trips == IF failed THEN Undefined ELSE Val(exec.passes[p].result)
           \* line 151: observer.error(e) reaches the consumers of an open execution,
           \* share() detaches them and the teardown runs
           errors == failed /\ exec.status = "open"
           emits == shouldEmit(exec.currentSchedule, trips)
           \* line 159: observer.next does nothing once the subscriber is closed
           delivers == emits /\ ~failed /\ exec.status = "open"
           afterCatch == IF errors THEN [teardown(exec) EXCEPT !.status = "errored"] ELSE exec
       IN  /\ execs' = [execs EXCEPT ![e] =
                  [afterCatch EXCEPT !.passes[p] = [phase |-> "done", result |-> None],
                                     !.currentSchedule = IF emits THEN trips ELSE @,
                                     !.storedBy = IF emits THEN Append(@, p) ELSE @,
                                     !.emitted = IF delivers THEN Append(@, trips) ELSE @]]
           /\ received' = IF errors THEN notify(received, attached, errorNotification)
                          ELSE IF delivers THEN notify(received, attached, nextNotification(trips))
                          ELSE received
           /\ attached' = IF errors THEN {} ELSE attached
           /\ metrics' = IF errors THEN [metrics EXCEPT !.remove = @ + 1] ELSE metrics
    /\ UNCHANGED <<observable, upstream, pollVars, resolveVars, reconVars, aggVars, parseVars, serviceVars>>

SubNext ==
    \/ UpstreamChanges
    \/ \E c \in Consumers : Subscribe(c)
    \/ \E c \in Consumers : Unsubscribe(c)
    \/ \E e \in 1..Len(execs) : DelayElapses(e)
    \/ \E e \in 1..Len(execs) : IntervalTick(e)
    \/ \E e \in 1..Len(execs) : \E p \in 1..Len(execs[e].passes) : PassFetches(e, p)
    \/ \E e \in 1..Len(execs) : \E p \in 1..Len(execs[e].passes) : PassCompletes(e, p)

SpecSub == SubInit /\ [][SubNext]_vars

\* pass p of execution e completes in this step
Completes(e, p) ==
    /\ p \in 1..Len(execs[e].passes)
    /\ execs[e].passes[p].phase = "fetched"
    /\ execs'[e].passes[p].phase = "done"

C9_EmitOnlyOnChange ==
    \A e \in 1..Len(execs) :
        /\ \A i \in 1..(Len(execs[e].emitted) - 1) :
              execs[e].emitted[i] # execs[e].emitted[i + 1]
        /\ execs[e].status = "open" =>
              execs[e].currentSchedule =
                  IF execs[e].emitted = <<>> THEN Null
                  ELSE execs[e].emitted[Len(execs[e].emitted)]

\* C9 witness: three passes are done, the schedule changed once: two snapshots
\* were emitted and one pass emitted nothing
C9_Witness ==
    \E e \in 1..Len(execs) :
        /\ execs[e].status = "open"
        /\ Len(execs[e].passes) = 3
        /\ \A p \in 1..3 : execs[e].passes[p].phase = "done"
        /\ Len(execs[e].emitted) = 2

\* C10: after the last consumer has unsubscribed, neither the startup timer nor
\* the periodic timer is armed, no pass is started and no snapshot is delivered
\* any more, whether the startup delay had elapsed or not and also when a pass
\* was in flight.
C10_UnsubscribeStopsAll ==
    /\ [](\A e \in 1..Len(execs) :
              execs[e].status = "unsubscribed" =>
                  execs[e].delayTimeout # "armed" /\ execs[e].interval # "armed")
    /\ [][\A e \in 1..Len(execs) :
              execs[e].status = "unsubscribed" =>
                  /\ Len(execs'[e].passes) = Len(execs[e].passes)
                  /\ execs'[e].emitted = execs[e].emitted]_vars
    /\ [][\A c \in Consumers :
              c \notin attached =>
                  \/ received'[c] = received[c]
                  \/ c \in attached' /\ received'[c] = <<>>]_vars

\* C10 witness: the only consumer unsubscribed after the startup delay with a
\* pass in flight; the pass has completed since and changed the remembered
\* snapshot, and nothing was delivered
C10_Witness ==
    \E e \in 1..Len(execs) :
        /\ execs[e].status = "unsubscribed"
        /\ execs[e].delayTimeout = "fired" /\ execs[e].interval = "cleared"
        /\ Len(execs[e].passes) = 2
        /\ \A p \in 1..2 : execs[e].passes[p].phase = "done"
        /\ Len(execs[e].emitted) = 1
        /\ execs[e].currentSchedule # execs[e].emitted[1]
        /\ attached = {}

\* the executions whose field has the given value
ExecsWith(field, value) == {e \in 1..Len(execs) : execs[e][field] = value}

\* C11: the consumers of one subscription object share one execution: at most one
\* startup timer, one periodic timer and one metrics registration exist whatever
\* the number of consumers, every emission reaches all attached consumers, and
\* polling stops only when the last consumer detaches: attaching or detaching a
\* consumer that is not the only one changes no execution and no registration.
C11_SharedExecution ==
    /\ [](/\ Cardinality(ExecsWith("status", "open")) <= 1
          /\ Cardinality(ExecsWith("delayTimeout", "armed")) <= 1
          /\ Cardinality(ExecsWith("interval", "armed")) <= 1
          /\ metrics.add - metrics.remove = (IF attached = {} THEN 0 ELSE 1)
          /\ attached # {} =>
                /\ execs[Len(execs)].status = "open"
                /\ execs[Len(execs)].delayTimeout # "cleared"
                /\ execs[Len(execs)].interval # "cleared")
    /\ [][\A e \in 1..Len(execs) :
              Len(execs'[e].emitted) > Len(execs[e].emitted) =>
                  \A c \in attached :
                      received'[c] = Append(received[c],
                          nextNotification(execs'[e].emitted[Len(execs'[e].emitted)]))]_vars
    /\ [][(attached # {} /\ attached' # {} /\ attached' # attached) =>
              (execs' = execs /\ metrics' = metrics)]_vars

\* C11 witness: two consumers are attached to one execution whose periodic timer
\* runs; both have received the same two snapshots, with one registration
C11_Witness ==
    /\ attached = {"c1", "c2"}
    /\ Len(execs) = 1 /\ execs[1].interval = "armed"
    /\ Len(execs[1].emitted) = 2
    /\ received["c1"] = received["c2"] /\ Len(received["c1"]) = 2
    /\ metrics = [add |-> 1, remove |-> 0]

\* a pass of execution e that failed completes in this step
FailureCompletes(e) ==
    \E p \in 1..Len(execs[e].passes) :
        Completes(e, p) /\ Val(execs[e].passes[p].result) = Thrown

\* C12: when a pass fails, every attached consumer receives the error, the
\* subscription ends without retry (no timer stays armed, no pass is started),
\* and no snapshot, in particular no undefined one, is delivered at or after
\* the failure.
C12_FailureTerminates ==
    /\ [](/\ \A e \in ExecsWith("status", "errored") :
                execs[e].delayTimeout # "armed" /\ execs[e].interval # "armed"
          /\ \A c \in Consumers : \A i \in 1..Len(received[c]) :
                /\ received[c][i] # nextNotification(Undefined)
                /\ received[c][i] = errorNotification => i = Len(received[c]))
    /\ [][\A e \in ExecsWith("status", "open") :
              FailureCompletes(e) =>
                  /\ execs'[e].status = "errored"
                  /\ execs'[e].emitted = execs[e].emitted
                  /\ attached' = {}
                  /\ \A c \in Consumers :
                        received'[c] = IF c \in attached
                                       THEN Append(received[c], errorNotification)
                                       ELSE received[c]]_vars
    /\ [][\A e \in ExecsWith("status", "errored") :
              /\ execs'[e].status = "errored"
              /\ Len(execs'[e].passes) = Len(execs[e].passes)
              /\ execs'[e].emitted = execs[e].emitted]_vars

\* C12 witness: the first pass failed while a second one was in flight; both
\* consumers got the error after no snapshot, and the second pass has since
\* computed a snapshot with a trip that was delivered to nobody
C12_Witness ==
    /\ Len(execs) = 1 /\ execs[1].status = "errored"
    /\ execs[1].interval = "cleared"
    /\ Len(execs[1].passes) = 2
    /\ execs[1].currentSchedule = [trips |-> <<SubTrip>>]
    /\ execs[1].emitted = <<>>
    /\ \A c \in Consumers : received[c] = <<errorNotification>>

\* the iteration that this step performed, had its real-time fetch failed (or
\* with no real-time source configured)
StaticOnlyIteration ==
    processScheduleDate([tripStops |-> tripStops, visited |-> visited], now,
        flatSchedules(lookups(cacheManager, now, routes, scheduleDates[dayIndex], {}), 1),
        feedEntities, FALSE)

LookupKey(i) ==
    cacheKeyOf(scheduleCacheKey(routes[i].routeId, routes[i].stopId, now,
                                scheduleDates[dayIndex]))

\* C14: when the static lookup of a route-stop pair fails at some day offset, the
\* call is rejected and returns no trip list, not even the entries it had built
\* for earlier day offsets, and the failed lookup leaves no cache entry: its key
\* is in the cache only if another lookup of the same pair succeeded.
C14_StaticFailureIsFatal ==
    /\ callOutcome.status = "rejected" =>
          /\ callOutcome.failed # {}
          /\ ~Returned
          /\ \A i \in callOutcome.failed :
                LookupKey(i) \in DOMAIN cacheManager =>
                    \E j \in (1..Len(routes)) \ callOutcome.failed : routes[j] = routes[i]
    /\ callOutcome.status # "rejected" => callOutcome.failed = {}

\* C14 witness: the lookup of the first of two pairs failed at day offset +1 when
\* the result list already held entries; the other pair's lookup of that day is
\* cached, the failed one is not
C14_Witness ==
    /\ callOutcome = [status |-> "rejected", failed |-> {1}]
    /\ routes = <<StagecoachPair, AirportPair>>
    /\ dayIndex = 3 /\ tripStops # <<>>
    /\ LookupKey(1) \notin DOMAIN cacheManager
    /\ LookupKey(2) \in DOMAIN cacheManager

\* what the static lookups of the three day offsets give for the query
AllOccurrences ==
    flatSchedules(lookups(<<>>, now, routes, -1, {}), 1)
    \o flatSchedules(lookups(<<>>, now, routes, 0, {}), 1)
    \o flatSchedules(lookups(<<>>, now, routes, 1, {}), 1)

\* the removal rules: the cancellation or skip of a matched update that passes
\* the gate, and an entry kept before with the same trip, arrival and departure
RemovedByGatedUpdate(v) ==
    /\ Cancels(v)
    /\ WithinFourHours(v) \/ Val(v.tripUpdate).trip.startDate = Some(v.trip.start_date)

DuplicateOfKept(n) ==
    \E m \in 1..(n - 1) :
        /\ InResult(m)
        /\ visited[m].trip.trip_id = visited[n].trip.trip_id
        /\ visited[m].arrivalTime = visited[n].arrivalTime
        /\ visited[m].departureTime = visited[n].departureTime

\* C15: every occurrence the static lookups give for day offsets -1, 0, +1 is
\* handled, and it is in the result unless its resolved departure is before
\* now, a gated cancellation or skip removes it, or it repeats a kept entry; an
\* occurrence whose update deviates by more than 90 minutes keeps its scheduled
\* times and is not removed for that.
C15_NoOtherSuppression ==
    /\ Returned => [n \in 1..Len(visited) |-> visited[n].trip] = AllOccurrences
    /\ \A n \in 1..Len(visited) :
          LET v == visited[n]
          IN  /\ \/ InResult(n)
                 \/ v.departureTime < now
                 \/ RemovedByGatedUpdate(v)
                 \/ DuplicateOfKept(n)
              /\ (Has(v.stopTimeUpdate) /\ DeviationOf(v) > 90 * 60 * 1000) =>
                    /\ v.arrivalTime = v.trip.arrival_time
                    /\ v.departureTime = v.trip.departure_time
                    /\ (v.departureTime >= now /\ ~RemovedByGatedUpdate(v)) => InResult(n)

\* C15 witness: the call returned; an occurrence whose stop update puts the
\* arrival more than 90 minutes off schedule is in the result with its
\* scheduled times, and an occurrence of the day before was dropped as past
C15_Witness ==
    /\ Returned
    /\ \E n \in 1..Len(visited) :
          /\ Has(visited[n].stopTimeUpdate)
          /\ DeviationOf(visited[n]) > 90 * 60 * 1000
          /\ visited[n].arrivalTime = visited[n].trip.arrival_time
          /\ InResult(n)
    /\ \E m \in 1..Len(visited) : visited[m].outcome = "past" /\ ~InResult(m)

\* C16: the trips of a snapshot are in ascending order of the sort key, which is
\* departureTime when sortByDeparture is set and arrivalTime otherwise, and
\* every trip's sort key is strictly later than now.
C16_SortedAndUpcoming ==
    Has(schedule) =>
        LET trips == Val(schedule).trips
            key(t) == IF Val(options).sortByDeparture THEN t.departureTime ELSE t.arrivalTime
        IN  /\ \A i, j \in 1..Len(trips) : i < j => key(trips[i]) <= key(trips[j])
            /\ \A i \in 1..Len(trips) : key(trips[i]) * 1000 > clock

\* C16 witness: sorted by departure, the first trip of the snapshot arrives after
\* the second one, and a trip whose departure is not after now was left out
C16_Witness ==
    /\ Has(schedule) /\ Val(options).sortByDeparture
    /\ Len(Val(schedule).trips) = 2
    /\ Val(schedule).trips[1].arrivalTime > Val(schedule).trips[2].arrivalTime
    /\ Val(schedule).trips[1].departureTime < Val(schedule).trips[2].departureTime
    /\ \E i \in 1..Len(upcomingTrips) :
          (upcomingTrips[i].departureTime.ms \div 1000
              + findOffset(Val(options).routes, upcomingTrips[i])) * 1000 <= clock

\* the (routeId, stopId) pairs of a list of trips
PairsOf(trips) == {<<trips[i].routeId, trips[i].stopId>> : i \in 1..Len(trips)}

\* the sequence in front of the truncation of line 87
BeforeTruncation ==
    IF Val(options).listMode = "nextPerRoute"
    THEN nextPerRoute(upcomingSorted(upcomingTrips, Val(options), clock))
    ELSE upcomingSorted(upcomingTrips, Val(options), clock)

\* C17: for limit >= 0 a snapshot holds at most limit trips and is the first
\* limit elements of the sorted and, in nextPerRoute mode, per-pair-filtered
\* sequence; in nextPerRoute mode, when at least limit distinct pairs have
\* upcoming trips, the snapshot shows limit distinct pairs.
C17_TruncationAfterFilter ==
    (Has(schedule) /\ Val(options).limit >= 0) =>
        LET trips == Val(schedule).trips
            limit == Val(options).limit
        IN  /\ Len(trips) <= limit
            /\ trips = SubSeq(BeforeTruncation, 1, Min(limit, Len(BeforeTruncation)))
            /\ (/\ Val(options).listMode = "nextPerRoute"
                /\ Cardinality(PairsOf(upcomingSorted(upcomingTrips, Val(options), clock))) >= limit)
                  => Cardinality(PairsOf(trips)) = limit

\* the part of C17 that does not count pairs: the snapshot is the first limit
\* elements of the sequence in front of the truncation
C17_FirstLimitElements ==
    (Has(schedule) /\ Val(options).limit >= 0) =>
        /\ Len(Val(schedule).trips) <= Val(options).limit
        /\ Val(schedule).trips =
              SubSeq(BeforeTruncation, 1, Min(Val(options).limit, Len(BeforeTruncation)))

\* three pairs whose keys differ have upcoming trips, two of the same pair come
\* first in the sorted list, and the snapshot of limit 2 shows two pairs
C17_TwoPairsShown ==
    /\ Has(schedule) /\ Val(options).listMode = "nextPerRoute" /\ Val(options).limit = 2
    /\ Len(upcomingSorted(upcomingTrips, Val(options), clock)) = 3
    /\ upcomingSorted(upcomingTrips, Val(options), clock)[1].routeId = "a"
    /\ upcomingSorted(upcomingTrips, Val(options), clock)[1].stopId = "c"
    /\ upcomingSorted(upcomingTrips, Val(options), clock)[2].routeId = "a"
    /\ upcomingSorted(upcomingTrips, Val(options), clock)[2].stopId = "c"
    /\ Cardinality(PairsOf(Val(schedule).trips)) = 2

\* the first query of the request for the trip's pair (line 56: Array.find)
QueryOf(trip_) ==
    LET qs == Val(options).routes
        hits == {i \in 1..Len(qs) : qs[i].routeId = trip_.routeId /\ qs[i].stopId = trip_.stopId}
    IN  qs[CHOOSE i \in hits : \A j \in hits : i <= j]

\* C18: each trip of a snapshot is a trip of the provider whose arrivalTime and
\* departureTime are the reconciled arrival and departure in epoch seconds plus
\* the offset of the query of its (routeId, stopId); the same offset is added to
\* both, so the time between arrival and departure is unchanged.
C18_OffsetApplied ==
    Has(schedule) =>
        \A k \in 1..Len(Val(schedule).trips) :
            LET t == Val(schedule).trips[k]
            IN  \E i \in 1..Len(upcomingTrips) :
                    LET u == upcomingTrips[i]
                    IN  /\ u.tripId = t.tripId /\ u.routeId = t.routeId /\ u.stopId = t.stopId
                        /\ t.arrivalTime * 1000 = u.arrivalTime.ms + QueryOf(u).offset * 1000
                        /\ t.departureTime * 1000 = u.departureTime.ms + QueryOf(u).offset * 1000
                        /\ (t.departureTime - t.arrivalTime) * 1000
                              = u.departureTime.ms - u.arrivalTime.ms

\* C18 witness: a snapshot with a trip of the pair queried with offset 60 that
\* dwells 90 s, and a trip of the pair queried with offset -60
C18_Witness ==
    /\ Has(schedule)
    /\ Val(options).routes[1] = Query("a-b", "c", 0)
    /\ \E k \in 1..Len(Val(schedule).trips) :
          /\ Val(schedule).trips[k].routeId = "a" /\ Val(schedule).trips[k].stopId = "b-c"
          /\ Val(schedule).trips[k].arrivalTime = 100000 + 60 + 60
          /\ Val(schedule).trips[k].departureTime = 100000 + 60 + 90 + 60
    /\ \E k \in 1..Len(Val(schedule).trips) :
          /\ Val(schedule).trips[k].routeId = "a" /\ Val(schedule).trips[k].stopId = "c"
          /\ Val(schedule).trips[k].arrivalTime = 100000 + 120 - 60

(***************************************************************************)
(* parseRouteStopPairs, schedule.service.ts 103-126.  A string is the      *)
(* sequence of its characters, so that split, trim and parseInt work on    *)
(* the text as the code does.                                              *)
(***************************************************************************)
RECURSIVE split(_, _)
\* String.prototype.split with a one-character separator: always at least one part
split(str, separator) ==
    IF \A i \in 1..Len(str) : str[i] # separator THEN <<str>>
    ELSE LET at == CHOOSE i \in 1..Len(str) :
                      str[i] = separator /\ \A j \in 1..(i - 1) : str[j] # separator
         IN  <<SubSeq(str, 1, at - 1)>> \o split(SubSeq(str, at + 1, Len(str)), separator)

RECURSIVE trimStart(_)
trimStart(str) == IF str # <<>> /\ Head(str) = " " THEN trimStart(Tail(str)) ELSE str

RECURSIVE trimEnd(_)
trimEnd(str) ==
    IF str # <<>> /\ str[Len(str)] = " " THEN trimEnd(SubSeq(str, 1, Len(str) - 1)) ELSE str

\* String.prototype.trim
trim(str) == trimEnd(trimStart(str))

Digits == {"0", "1", "2", "3", "4", "5", "6", "7", "8", "9"}

digitValue(c) == CHOOSE v \in 0..9 : <<"0", "1", "2", "3", "4", "5", "6", "7", "8", "9">>[v + 1] = c

RECURSIVE digitPrefix(_)
\* the longest prefix of digits
digitPrefix(str) ==
    IF str # <<>> /\ Head(str) \in Digits THEN <<Head(str)>> \o digitPrefix(Tail(str)) ELSE <<>>

RECURSIVE decimalValue(_)
decimalValue(digits) ==
    IF digits = <<>> THEN 0
    ELSE 10 * decimalValue(SubSeq(digits, 1, Len(digits) - 1)) + digitValue(digits[Len(digits)])

\* parseInt(string) of the language for text without a 0x prefix: leading white
\* space and a sign are skipped, the digits up to the first other character are
\* the number, and the result is NaN (None) when there is no digit there
parseInt(str) ==
    LET text == trimStart(str)
        negative == text # <<>> /\ Head(text) = "-"
        body == IF text # <<>> /\ Head(text) \in {"+", "-"} THEN Tail(text) ELSE text
    IN  IF digitPrefix(body) = <<>> THEN None
        ELSE IF negative THEN Some(-decimalValue(digitPrefix(body)))
        ELSE Some(decimalValue(digitPrefix(body)))

\* lines 106-111: the parts of a tuple, trimmed; a part that is not there is None
toPair(tuple) ==
    LET parts == [i \in 1..Len(split(tuple, ",")) |-> trim(split(tuple, ",")[i])]
    IN  [routeId |-> Some(parts[1]),
         stopId |-> IF Len(parts) >= 2 THEN Some(parts[2]) ELSE None,
         offset |-> parseInt(IF Len(parts) >= 3 THEN parts[3] ELSE <<"0">>)]

\* lines 114 and 120: !pair.routeId || !pair.stopId, then isNaN(pair.offset)
invalidPair(pair) ==
    ~Has(pair.routeId) \/ Val(pair.routeId) = <<>> \/ ~Has(pair.stopId) \/ Val(pair.stopId) = <<>>

BadRequest(message) == [error |-> "BadRequestException", message |-> message]

RECURSIVE firstError(_)
\* lines 113-123: the loop throws at the first pair that fails a test
firstError(pairs) ==
    IF pairs = <<>> THEN None
    ELSE IF invalidPair(Head(pairs))
         THEN Some(BadRequest("Invalid route-stop pair; must be in the format routeId,stopId[,offset]"))
    ELSE IF ~Has(Head(pairs).offset)
         THEN Some(BadRequest("Invalid offset; must be a number"))
    ELSE firstError(Tail(pairs))

\* lines 103-126
parseRouteStopPairs(raw) ==
    LET tuples == split(raw, ";")
        pairs == [i \in 1..Len(tuples) |-> toPair(tuples[i])]
    IN  IF Has(firstError(pairs)) THEN Val(firstError(pairs))
        ELSE [pairs |-> [i \in 1..Len(pairs) |->
                            [routeId |-> Val(pairs[i].routeId), stopId |-> Val(pairs[i].stopId),
                             offset |-> Val(pairs[i].offset)]]]

(***************************************************************************)
(* Specification SpecParse: parseRouteStopPairs called on a string made of *)
(* up to MaxTuples tuples joined with ';'.                                 *)
(***************************************************************************)
MaxTuples == 2

\* the text of a tuple: with and without offset, with a negative and a padded
\* offset, with an empty offset, with letters behind or in front of the digits,
\* without stop, without route, and empty
ParseTuples ==
    { <<"r", ",", "s">>,
      <<"q", ",", "t", ",", "1", "2">>,
      <<"r", ",", "s", ",", "-", "5">>,
      <<" ", "r", " ", ",", " ", "s", " ", ",", " ", "7", " ">>,
      <<"r", ",", "s", ",">>,
      <<"r", ",", "s", ",", "5", "x">>,
      <<"r", ",", "s", ",", "x", "5">>,
      <<"r", ",", "s", ",", "1", ".", "5">>,
      <<"r">>,
      <<",", "s">>,
      <<>> }

RECURSIVE join(_, _)
join(strs, separator) ==
    IF Len(strs) = 0 THEN <<>>
    ELSE IF Len(strs) = 1 THEN strs[1]
    ELSE strs[1] \o <<separator>> \o join(Tail(strs), separator)

ParseInputs ==
    {join(ts, ";") : ts \in UNION {[1..n -> ParseTuples] : n \in 1..MaxTuples}}

ParseInit ==
    /\ routeStopPairsRaw \in ParseInputs
    /\ routeStopPairs = None
    /\ ResolveIdle /\ ReconIdle /\ AggIdle /\ SubIdle /\ ServiceIdle

CallParseRouteStopPairs ==
    /\ routeStopPairs = None
    /\ routeStopPairs' = Some(parseRouteStopPairs(routeStopPairsRaw))
    /\ UNCHANGED <<routeStopPairsRaw, resolveVars, reconVars, aggVars, subVars, serviceVars>>

ParseNext == CallParseRouteStopPairs

SpecParse == ParseInit /\ [][ParseNext]_vars

\* the trimmed parts of a tuple of the input
PartsOf(tuple) == [i \in 1..Len(split(tuple, ",")) |-> trim(split(tuple, ",")[i])]

\* text that is no number: empty, or with a character that no number has
NotANumber(str) ==
    str = <<>> \/ \E i \in 1..Len(str) : str[i] \notin Digits \cup {"+", "-", "."}

\* a tuple without routeId or stopId, or with an offset that is no number
Malformed(tuple) ==
    \/ Len(PartsOf(tuple)) < 2
    \/ PartsOf(tuple)[1] = <<>> \/ PartsOf(tuple)[2] = <<>>
    \/ Len(PartsOf(tuple)) >= 3 /\ NotANumber(PartsOf(tuple)[3])

\* C19: parseRouteStopPairs rejects with a request error, and returns no pairs,
\* every input with a tuple that lacks a routeId or a stopId or whose offset is
\* not a number (empty, or with a non-numeric character such as a trailing
\* letter); for accepted input it returns the tuples in input order, with
\* offset 0 where none is given.
C19_RejectsMalformed ==
    Has(routeStopPairs) =>
        LET tuples == split(routeStopPairsRaw, ";")
            result == Val(routeStopPairs)
        IN  /\ (\E i \in 1..Len(tuples) : Malformed(tuples[i])) =>
                  ("error" \in DOMAIN result /\ result.error = "BadRequestException")
            /\ "pairs" \in DOMAIN result =>
                  /\ Len(result.pairs) = Len(tuples)
                  /\ \A i \in 1..Len(tuples) :
                        /\ result.pairs[i].routeId = PartsOf(tuples[i])[1]
                        /\ result.pairs[i].stopId = PartsOf(tuples[i])[2]
                        /\ Len(PartsOf(tuples[i])) < 3 => result.pairs[i].offset = 0

\* the part of C19 without the offsets that parseInt reads only in part: missing
\* ids, an empty offset and an offset that begins with a letter are rejected,
\* and accepted input comes back in input order with 0 for an omitted offset
C19_RejectsMissingAndEmpty ==
    Has(routeStopPairs) =>
        LET tuples == split(routeStopPairsRaw, ";")
            result == Val(routeStopPairs)
        IN  /\ (\E i \in 1..Len(tuples) :
                    \/ Len(PartsOf(tuples[i])) < 2
                    \/ PartsOf(tuples[i])[1] = <<>> \/ PartsOf(tuples[i])[2] = <<>>
                    \/ Len(PartsOf(tuples[i])) >= 3
                         /\ (PartsOf(tuples[i])[3] = <<>>
                             \/ Head(PartsOf(tuples[i])[3]) \notin Digits \cup {"+", "-"})) =>
                  "error" \in DOMAIN result
            /\ "pairs" \in DOMAIN result =>
                  /\ Len(result.pairs) = Len(tuples)
                  /\ \A i \in 1..Len(tuples) :
                        /\ result.pairs[i].routeId = PartsOf(tuples[i])[1]
                        /\ result.pairs[i].stopId = PartsOf(tuples[i])[2]
                        /\ Len(PartsOf(tuples[i])) < 3 => result.pairs[i].offset = 0

\* two tuples were accepted, the first without offset and the second with 12
C19_AcceptedReached ==
    /\ Has(routeStopPairs) /\ "pairs" \in DOMAIN Val(routeStopPairs)
    /\ Val(routeStopPairs).pairs =
          << [routeId |-> <<"r">>, stopId |-> <<"s">>, offset |-> 0],
             [routeId |-> <<"q">>, stopId |-> <<"t">>, offset |-> 12] >>

(***************************************************************************)
(* The entry points getSchedule (94-101) and subscribeToSchedule (128-186) *)
(* of ScheduleService: both look the provider up by the feed code first.   *)
(***************************************************************************)
\* the feeds of the configuration
KnownFeeds == {FeedCode}

\* feedService.getFeedProvider: the provider of a configured feed, else undefined
getFeedProvider(feedCode) == IF feedCode \in KnownFeeds THEN Some(feedCode) ELSE None

\* a check that lets every lookup result pass
noProvider_Never(provider) == FALSE

\* if (!provider): the lookup gave undefined
noProvider(provider) == ~Has(provider)

\* lines 94-101
CallGetSchedule ==
    /\ observable = "idle" /\ Has(options) /\ schedule = None /\ thrown = None
    /\ IF ~noProvider(getFeedProvider(Val(options).feedCode))
       THEN /\ providerCalls' = providerCalls + 1
            /\ schedule' = Some(getUpcomingTrips(upcomingTrips, Val(options), clock))
            /\ UNCHANGED thrown
       ELSE /\ thrown' = Some(BadRequest("Invalid feed code"))
            /\ UNCHANGED <<schedule, providerCalls>>
    /\ UNCHANGED <<options, upcomingTrips, clock, resolveVars, reconVars, subVars, parseVars>>

\* lines 128-142 and 185: the observable is returned; nothing runs before a
\* consumer subscribes to it
CallSubscribeToSchedule ==
    /\ observable = "pending"
    /\ IF ~noProvider(getFeedProvider(Val(options).feedCode))
       THEN observable' = "created" /\ UNCHANGED thrown
       ELSE observable' = "failed" /\ thrown' = Some(BadRequest("Invalid feed code"))
    /\ UNCHANGED <<upstream, attached, received, execs, metrics, providerCalls,
                   pollVars, resolveVars, reconVars, aggVars, parseVars>>

(***************************************************************************)
(* Specification SpecRequest: one request to the service, a getSchedule or *)
(* a subscribeToSchedule, with a feed code that is configured or not.      *)
(***************************************************************************)
RequestOptions ==
    [feedCode : {FeedCode, "nofeed"},
     routes : {<<Query("a", "c", 0)>>}, limit : {2}, sortByDeparture : {FALSE},
     listMode : {"sequential"}]

\* what the provider would give: nothing, or one trip
RequestResults == {<<>>} \cup {<<t>> : t \in {u \in AggTripStops(1) : u.routeId = "a" /\ u.stopId = "c"}}

RequestInit ==
    /\ options \in {Some(o) : o \in RequestOptions}
    /\ schedule = None
    /\ \/ /\ upcomingTrips \in RequestResults
          /\ clock = AggClock
          /\ SubIdle
       \/ /\ upcomingTrips = <<>> /\ clock = 0
          /\ upstream \in UpstreamValues
          /\ attached = {}
          /\ received = [c \in Consumers |-> <<>>]
          /\ execs = <<>>
          /\ metrics = [add |-> 0, remove |-> 0]
          /\ observable = "pending"
          /\ changes = 0 /\ awaiting = {}
    /\ ResolveIdle /\ ReconIdle /\ ParseIdle /\ ServiceIdle

RequestNext ==
    \/ CallGetSchedule
    \/ CallSubscribeToSchedule
    \/ SubNext

SpecRequest == RequestInit /\ [][RequestNext]_vars

\* the feed code of the request is not configured
UnknownFeed == Val(options).feedCode \notin KnownFeeds

\* C20: getSchedule and subscribeToSchedule called with an unknown feed code
\* throw a request error in the step of the call itself, and no provider call,
\* cache access, timer, execution or metrics registration ever takes place.
C20_UnknownFeedRejected ==
    /\ [](UnknownFeed =>
            /\ providerCalls = 0 /\ schedule = None /\ cacheManager = <<>>
            /\ execs = <<>> /\ attached = {}
            /\ observable \in {"idle", "pending", "failed"}
            /\ observable = "idle" \/ metrics = [add |-> 0, remove |-> 0]
            /\ thrown \in {None, Some(BadRequest("Invalid feed code"))})
    /\ [][(UnknownFeed /\ upstream' = upstream) =>
             /\ thrown = None
             /\ thrown' = Some(BadRequest("Invalid feed code"))
             /\ observable = "pending" => observable' = "failed"]_vars

\* C20 witness: subscribeToSchedule has thrown for the feed code "nofeed"; no
\* observable exists and nothing was registered or started
C20_Witness ==
    /\ Val(options).feedCode = "nofeed"
    /\ observable = "failed"
    /\ thrown = Some(BadRequest("Invalid feed code"))
    /\ execs = <<>> /\ metrics = [add |-> 0, remove |-> 0] /\ providerCalls = 0

\* the stop update specifies exactly one of arrival and departure, and that one
\* carries a delay or an absolute time
OneSided(given, other) ==
    /\ Has(stopTimeUpdate)
    /\ Has(eventOf(stopTimeUpdate, given)) /\ ~Has(eventOf(stopTimeUpdate, other))
    /\ Has(delayOf(stopTimeUpdate, given)) \/ Has(timeOf(stopTimeUpdate, given))

\* the scheduled time of a side in milliseconds
ScheduledOf(key) == IF key = "arrival" THEN trip.arrival_time ELSE trip.departure_time

\* the delay the claim gives the side left out: the explicit delay when the
\* given side has one, else its absolute time minus its scheduled time
ExpectedDelay(given) ==
    IF Has(delayOf(stopTimeUpdate, given)) THEN Val(delayOf(stopTimeUpdate, given))
    ELSE Val(timeOf(stopTimeUpdate, given)) - ScheduledOf(given) \div 1000

\* the side left out is the scheduled time plus delay_ in the result: the arrival
\* as it is, the departure unless the clamp of lines 560-562 has raised it
ShiftedBy(other, delay_) ==
    IF other = "arrival"
    THEN Val(resolved).arrivalTime = trip.arrival_time + delay_ * 1000
    ELSE Val(resolved).departureTime =
            Max(trip.departure_time + delay_ * 1000, Val(resolved).arrivalTime)

\* C25: when the stop update specifies exactly one of arrival and departure, the
\* other side is its scheduled time plus one delay: the explicit delay field
\* whenever there is one, an explicit 0 included, and otherwise the given side's
\* absolute time minus its scheduled time (stated for results that pass the
\* 90-minute filter).
C25_ExplicitDelayPreferred ==
    \A given, other \in {"arrival", "departure"} :
        (Has(resolved) /\ given # other /\ OneSided(given, other) /\ Val(resolved).isRealtime)
            => ShiftedBy(other, ExpectedDelay(given))

\* the part of C25 without the explicit delay of 0
C25_NonZeroDelayPreferred ==
    \A given, other \in {"arrival", "departure"} :
        (/\ Has(resolved) /\ given # other /\ OneSided(given, other) /\ Val(resolved).isRealtime
         /\ delayOf(stopTimeUpdate, given) # Some(0))
            => ShiftedBy(other, ExpectedDelay(given))

\* a departure with delay 30 and an absolute time has moved the arrival by 30 s
C25_NonZeroDelayReached ==
    /\ Has(resolved) /\ OneSided("departure", "arrival") /\ Val(resolved).isRealtime
    /\ delayOf(stopTimeUpdate, "departure") = Some(30)
    /\ timeOf(stopTimeUpdate, "departure") = Some(36000)
    /\ Val(resolved).arrivalTime = trip.arrival_time + 30000

\* the stop update gives a delay and no absolute time for both sides, each delay
\* within 90 minutes, and the shifted arrival is not after the shifted departure
BothDelayed ==
    /\ Has(stopTimeUpdate)
    /\ \A key \in {"arrival", "departure"} :
          /\ Has(delayOf(stopTimeUpdate, key)) /\ ~Has(timeOf(stopTimeUpdate, key))
          /\ Abs(Val(delayOf(stopTimeUpdate, key))) <= 90 * 60
    /\ trip.arrival_time + Val(delayOf(stopTimeUpdate, "arrival")) * 1000
          <= trip.departure_time + Val(delayOf(stopTimeUpdate, "departure")) * 1000

\* C30: when the stop update gives delays and no absolute times for both arrival
\* and departure, each within 90 minutes, the resolved arrival and departure are
\* the scheduled arrival and departure shifted by the respective delay.
C30_BothDelaysApplied ==
    (Has(resolved) /\ BothDelayed) =>
        /\ Val(resolved).arrivalTime =
              trip.arrival_time + Val(delayOf(stopTimeUpdate, "arrival")) * 1000
        /\ Val(resolved).departureTime =
              trip.departure_time + Val(delayOf(stopTimeUpdate, "departure")) * 1000

\* the orders in which the queries of a request can be listed
Reorderings(seq) ==
    { [i \in 1..Len(seq) |-> seq[p[i]]] :
        p \in {f \in [1..Len(seq) -> 1..Len(seq)] : \A i, j \in 1..Len(seq) : f[i] = f[j] => i = j} }

RECURSIVE inQueryOrder(_, _, _)
\* gtfs.service.ts 595-601: the provider lists the trips of a schedule date query
\* by query, in the order of the request
inQueryOrder(trips, routes_, i) ==
    IF i > Len(routes_) THEN <<>>
    ELSE (IF \E j \in 1..(i - 1) : routes_[j].routeId = routes_[i].routeId
                                   /\ routes_[j].stopId = routes_[i].stopId
          THEN <<>>
          ELSE SelectSeq(trips, LAMBDA t : t.routeId = routes_[i].routeId
                                            /\ t.stopId = routes_[i].stopId))
         \o inQueryOrder(trips, routes_, i + 1)

\* C27: the snapshot depends only on the set of route-stop queries: listing the
\* queries in another order, with the same limit, sort key, list mode and data,
\* gives the same snapshot, also when trips tie on the sort key at the
\* truncation boundary or one pair is listed twice with different offsets.
C27_QueryOrderIrrelevant ==
    (Has(schedule) /\ upcomingTrips = inQueryOrder(upcomingTrips, Val(options).routes, 1)) =>
        \A q \in Reorderings(Val(options).routes) :
            getUpcomingTrips(inQueryOrder(upcomingTrips, q, 1),
                             [Val(options) EXCEPT !.routes = q], clock) = Val(schedule)

\* the stop updates of a trip update whose stopSequence is the occurrence's
MatchesBySequence(tripUpdate, trip_) ==
    {i \in 1..Len(Val(tripUpdate).stopTimeUpdate) :
        Val(tripUpdate).stopTimeUpdate[i].stopSequence = Some(trip_.stop_sequence)}

\* C23: the stop-time update chosen for an occurrence is one whose stopSequence
\* equals the occurrence's stop sequence whenever the matched trip update has
\* such an update anywhere in its list; an update that matches by stopId only is
\* chosen only when none matches by stopSequence.
C23_SequenceMatchPreferred ==
    \A n \in 1..Len(visited) :
        LET v == visited[n]
        IN  (Has(v.tripUpdate) /\ MatchesBySequence(v.tripUpdate, v.trip) # {}) =>
                /\ Has(v.stopTimeUpdate)
                /\ Val(v.stopTimeUpdate).stopSequence = Some(v.trip.stop_sequence)

\* the part of C23 that the code keeps: the chosen update matches by stopSequence
\* or by stopId, and one is chosen whenever one matches
C23_SomeMatchChosen ==
    \A n \in 1..Len(visited) :
        LET v == visited[n]
        IN  Has(v.tripUpdate) =>
                /\ Has(v.stopTimeUpdate) <=> HasStopUpdateFor(v.tripUpdate, v.trip)
                /\ Has(v.stopTimeUpdate) =>
                      \/ Val(v.stopTimeUpdate).stopSequence = Some(v.trip.stop_sequence)
                      \/ Val(v.stopTimeUpdate).stopId = Some(v.trip.stop_id)

\* an update that matches by stopSequence was chosen from a list of two
C23_SequenceMatchReached ==
    \E n \in 1..Len(visited) :
        /\ Has(visited[n].tripUpdate) /\ Len(Val(visited[n].tripUpdate).stopTimeUpdate) = 2
        /\ Has(visited[n].stopTimeUpdate)
        /\ Val(visited[n].stopTimeUpdate).stopSequence = Some(visited[n].trip.stop_sequence)

\* the service day an occurrence was looked up for: the agency-local date of
\* now + dayOffset, to which the timetable's interval was added
ServiceDayOf(trip_) ==
    CHOOSE today \in 0..4 :
        \E i \in 1..Len(stopTimes) :
            /\ stopTimes[i].trip_id = trip_.trip_id /\ stopTimes[i].stop_id = trip_.stop_id
            /\ today * Day + stopTimes[i].arrival_time - agencyTimezone = trip_.arrival_time

\* the trip updates of the feed for a trip id and a service date
DatedUpdates(tripId, date) ==
    {Val(feedEntities[i].tripUpdate) : i \in {j \in 1..Len(feedEntities) :
        /\ Has(feedEntities[j].tripUpdate)
        /\ Val(feedEntities[j].tripUpdate).trip.tripId = tripId
        /\ Val(feedEntities[j].tripUpdate).trip.startDate = Some(date)}}

\* C24: the trip update used for an occurrence is one with the occurrence's trip
\* id and service date when the feed holds one, and otherwise the date-less
\* update of the trip id; an update dated with a different service date is never
\* applied to the occurrence.
C24_DatedUpdateOwnDayOnly ==
    \A n \in 1..Len(visited) :
        LET v == visited[n]
            own == DatedUpdates(v.trip.trip_id, toChar(ServiceDayOf(v.trip)))
        IN  Has(v.tripUpdate) =>
                /\ Val(v.tripUpdate).trip.tripId = v.trip.trip_id
                /\ own # {} => Val(v.tripUpdate) \in own
                /\ own = {} => ~Has(Val(v.tripUpdate).trip.startDate)

\* the statement of C24 for occurrences scheduled before 24:00:00, whose
\* start_date is their service date
C24_BeforeMidnight ==
    \A n \in 1..Len(visited) :
        LET v == visited[n]
            own == DatedUpdates(v.trip.trip_id, toChar(ServiceDayOf(v.trip)))
        IN  (Has(v.tripUpdate) /\ v.trip.start_date = toChar(ServiceDayOf(v.trip))) =>
                /\ Val(v.tripUpdate).trip.tripId = v.trip.trip_id
                /\ own # {} => Val(v.tripUpdate) \in own
                /\ own = {} => ~Has(Val(v.tripUpdate).trip.startDate)

\* two dated updates of STBA have each been used for the occurrence of their day
C24_BothDaysReached ==
    \E n, m \in 1..Len(visited) :
        /\ visited[n].trip.trip_id = "STBA" /\ visited[m].trip.trip_id = "STBA"
        /\ visited[n].trip.start_date = "20080104" /\ visited[m].trip.start_date = "20080105"
        /\ Has(visited[n].tripUpdate) /\ Has(visited[m].tripUpdate)
        /\ Val(visited[n].tripUpdate).trip.startDate = Some("20080104")
        /\ Val(visited[m].tripUpdate).trip.startDate = Some("20080105")
        /\ visited[n].arrivalTime # visited[n].trip.arrival_time
        /\ visited[m].arrivalTime # visited[m].trip.arrival_time

\* C28: a real-time update that carries a service date is matched only to the
\* occurrence of its trip on that service day, the agency-local date of
\* now + dayOffset the occurrence was looked up for, also when the trip's
\* scheduled stop time is at or after 24:00:00; it is never matched to the
\* occurrence of the service day before or after.
C28_ServiceDayMatch ==
    \A n \in 1..Len(visited) :
        (Has(visited[n].tripUpdate) /\ Has(Val(visited[n].tripUpdate).trip.startDate)) =>
            Val(Val(visited[n].tripUpdate).trip.startDate) = toChar(ServiceDayOf(visited[n].trip))

(***************************************************************************)
(* The fetch of the real-time entities, gtfs.service.ts 450-494: every     *)
(* configured endpoint is fetched and the entities are cached under        *)
(* "tripUpdates" with a ttl taken from the Cache-Control headers.  A       *)
(* response is [failed, cacheControl, entity]; cacheControl is None        *)
(* without the header, else the directives [maxAge, noCache].              *)
(***************************************************************************)
RECURSIVE maxAgeOf(_, _)
\* lines 460-478: maxAge starts at -1 and every response that carries a hint
\* raises it with Math.max
maxAgeOf(responses, maxAge) ==
    IF responses = <<>> THEN maxAge
    ELSE LET directives == Head(responses).cacheControl
         IN  maxAgeOf(Tail(responses),
                IF Has(directives) /\ Has(Val(directives).maxAge)
                THEN Max(maxAge, Val(Val(directives).maxAge))
                ELSE IF Has(directives) /\ Val(directives).noCache THEN Max(maxAge, 0)
                ELSE maxAge)

\* line 491
fetchTtl(responses) ==
    IF maxAgeOf(responses, -1) >= 0 THEN maxAgeOf(responses, -1) * 1000 ELSE 15 * 1000

RECURSIVE flatEntities(_)
\* lines 485-490: responses.flat()
flatEntities(responses) ==
    IF responses = <<>> THEN <<>>
    ELSE Head(responses).entity \o flatEntities(Tail(responses))

\* lines 452-493: what fn settles to; axios.get rejects for a failed response
\* and Promise.all with it
fetchTripUpdates(responses) ==
    IF \E i \in 1..Len(responses) : responses[i].failed THEN threw
    ELSE [threw |-> FALSE, value |-> flatEntities(responses),
          ttl |-> Some(fetchTtl(responses))]

(***************************************************************************)
(* Specification SpecFetch: calls of getTripUpdates and of                 *)
(* getScheduleForRouteAtStop through cached(), and the passing of time.    *)
(***************************************************************************)
\* time steps of a run
MaxTicks == 3

FetchTick == 10 * 1000

\* 2008-01-05 at 06:00:00
FetchStart == 2 * Day + 6 * Hour

\* Cache-Control of a response: none, max-age=10, max-age=30, no-cache, and
\* no-cache with max-age=10
CacheControls ==
    { None,
      Some([maxAge |-> Some(10), noCache |-> FALSE]),
      Some([maxAge |-> Some(30), noCache |-> FALSE]),
      Some([maxAge |-> None, noCache |-> TRUE]),
      Some([maxAge |-> Some(10), noCache |-> TRUE]) }

\* the entities an endpoint serves: a dated trip update of STBA without stop
\* updates
EndpointEntity(startDate) ==
    <<[tripUpdate |-> Some([trip |-> [tripId |-> "STBA", startDate |-> Some(startDate),
                                      scheduleRelationship |-> "SCHEDULED"],
                            stopTimeUpdate |-> <<>>])]>>

\* what the first and the second endpoint may answer
EndpointResponses(i) ==
    { [failed |-> FALSE, cacheControl |-> cc,
       entity |-> EndpointEntity(<<"20080105", "20080106">>[i])] : cc \in CacheControls }
    \cup {[failed |-> TRUE, cacheControl |-> None, entity |-> <<>>]}

\* rtTripUpdates configured with no, one or two endpoints
FetchResponses ==
    {<<>>} \cup {<<r>> : r \in EndpointResponses(1)}
    \cup {<<r1, r2>> : r1 \in EndpointResponses(1), r2 \in EndpointResponses(2)}

FetchInit ==
    /\ now = FetchStart
    /\ cacheManager = <<>>
    /\ lastCached = None
    /\ agencyTimezone = 0 /\ calendar = EveryDay /\ calendarDates = {}
    /\ routes = <<>> /\ feedEntities = <<>> /\ dayIndex = 0 /\ tripStops = <<>>
    /\ visited = <<>> /\ callOutcome = [status |-> "idle", failed |-> {}]
    /\ ResolveIdle /\ AggIdle /\ SubIdle /\ ParseIdle /\ ServiceIdle

\* what is kept of a call of cached(): its arguments, the cache before and
\* after it, and how it ended
cachedCall(fn, args, key, settled, ttl, r) ==
    Some([fn |-> fn, args |-> args, at |-> now, key |-> key,
          settled |-> IF r.invoked THEN settled ELSE threw, ttl |-> ttl,
          before |-> cacheManager, after |-> r.cache,
          result |-> r.result, invoked |-> r.invoked])

\* lines 443-517 with rtTripUpdates configured: the fetch through the cache, then
\* the lookup by trip id of what it gave
CallGetTripUpdates ==
    /\ \E responses \in FetchResponses :
        LET r == cached(cacheManager, "tripUpdates", fetchTripUpdates(responses), None)
        IN  /\ cacheManager' = r.cache
            /\ lastCached' = cachedCall("getTripUpdates", responses, "tripUpdates",
                                        fetchTripUpdates(responses), None, r)
            /\ feedEntities' = IF r.result.threw THEN <<>> ELSE r.result.value
    /\ UNCHANGED <<now, routes, dayIndex, tripStops, visited, callOutcome, agencyTimezone,
                   calendar, calendarDates, resolveVars, aggVars, subVars, parseVars,
                   serviceVars>>

\* lines 175-304: one static lookup through the cache; the query may fail
CallGetScheduleForRouteAtStop(routeId, stopId, dayOffset) ==
    /\ \E queryFails \in BOOLEAN :
        LET r == cachedSchedule(cacheManager, now, routeId, stopId, dayOffset, queryFails)
        IN  /\ cacheManager' = r.cache
            /\ lastCached' =
                  cachedCall("getScheduleForRouteAtStop",
                             [routeId |-> routeId, stopId |-> stopId, dayOffset |-> dayOffset],
                             scheduleCacheKey(routeId, stopId, now, dayOffset),
                             IF queryFails THEN threw
                             ELSE bareValue(getScheduleForRouteAtStop(now, routeId, stopId,
                                                                      dayOffset)),
                             scheduleTtl, r)
    /\ UNCHANGED <<now, routes, feedEntities, dayIndex, tripStops, visited, callOutcome,
                   agencyTimezone, calendar, calendarDates, resolveVars, aggVars, subVars,
                   parseVars, serviceVars>>

\* the clock moves on by tick milliseconds, at most MaxTicks times from start
TimePasses(start, tick) ==
    /\ now + tick <= start + MaxTicks * tick
    /\ now' = now + tick
    /\ cacheManager' = elapse(cacheManager, tick)
    /\ UNCHANGED <<routes, feedEntities, dayIndex, tripStops, visited, callOutcome,
                   agencyTimezone, calendar, calendarDates, lastCached, resolveVars, aggVars,
                   subVars, parseVars, serviceVars>>

FetchNext ==
    \/ CallGetTripUpdates
    \/ CallGetScheduleForRouteAtStop("STBA", "STAGECOACH", 0)
    \/ TimePasses(FetchStart, FetchTick)

SpecFetch == FetchInit /\ [][FetchNext]_vars

\* the entry a call of cached() is to leave under its key
StoredBy(call) ==
    [value |-> call.settled.value,
     ttl |-> IF Has(call.settled.ttl) THEN Val(call.settled.ttl) ELSE call.ttl]

\* C21: after cached(key, compute, defaultTtl) has run on a miss, the cache holds
\* an entry under feedCode-key if and only if compute succeeded and did not
\* return a {value, ttl} pair with ttl <= 0; the entry has the returned ttl, or
\* defaultTtl for a bare value; a failed compute propagates its error and leaves
\* the cache unchanged; on a hit compute is not invoked.
C21_CachedContract ==
    Has(lastCached) =>
        LET call == Val(lastCached)
            cacheKey == FeedCode \o "-" \o call.key
        IN  /\ call.invoked <=> cacheKey \notin DOMAIN call.before
            /\ ~call.invoked =>
                  /\ call.after = call.before
                  /\ call.result = bareValue(call.before[cacheKey].value)
            /\ call.invoked =>
                  /\ cacheKey \in DOMAIN call.after <=>
                        /\ ~call.settled.threw
                        /\ ~(Has(call.settled.ttl) /\ Val(call.settled.ttl) <= 0)
                  /\ cacheKey \in DOMAIN call.after => call.after[cacheKey] = StoredBy(call)
                  /\ \A k \in DOMAIN call.before : k \in DOMAIN call.after
                                                   /\ call.after[k] = call.before[k]
                  /\ DOMAIN call.after \subseteq DOMAIN call.before \cup {cacheKey}
                  /\ call.settled.threw => call.result.threw /\ call.after = call.before
                  /\ ~call.settled.threw => call.result = bareValue(call.settled.value)

\* C21 witness: on a miss the fetch gave a {value, ttl} pair with ttl 0 and
\* nothing was stored, while the static lookup made before is still cached with
\* the default ttl it was stored with less the time that has passed
C21_Witness ==
    /\ Has(lastCached) /\ Val(lastCached).invoked
    /\ Val(lastCached).fn = "getTripUpdates"
    /\ ~Val(lastCached).settled.threw /\ Val(lastCached).settled.ttl = Some(0)
    /\ DOMAIN cacheManager = DOMAIN Val(lastCached).before
    /\ \E k \in DOMAIN cacheManager : cacheManager[k].ttl = scheduleTtl - FetchTick

\* the max-age values among the responses of a fetch
MaxAges(responses) ==
    {Val(Val(responses[i].cacheControl).maxAge) :
        i \in {j \in 1..Len(responses) : /\ Has(responses[j].cacheControl)
                                          /\ Has(Val(responses[j].cacheControl).maxAge)}}

\* a response says no-cache and gives no max-age
NoCacheOnly(responses) ==
    \E i \in 1..Len(responses) :
        /\ Has(responses[i].cacheControl)
        /\ Val(responses[i].cacheControl).noCache
        /\ ~Has(Val(responses[i].cacheControl).maxAge)

\* the most restrictive freshness hint of the responses, in milliseconds
MostRestrictiveTtl(responses) ==
    IF NoCacheOnly(responses) THEN 0
    ELSE IF MaxAges(responses) # {}
         THEN 1000 * CHOOSE m \in MaxAges(responses) : \A n \in MaxAges(responses) : m <= n
    ELSE 15000

\* a fetch was made and has succeeded
Fetched ==
    /\ Has(lastCached) /\ Val(lastCached).fn = "getTripUpdates"
    /\ Val(lastCached).invoked /\ ~Val(lastCached).settled.threw

\* the entities of the last fetch are cached with ttl_, not at all for ttl_ = 0
CachedFor(ttl_) ==
    IF ttl_ = 0 THEN cacheKeyOf("tripUpdates") \notin DOMAIN Val(lastCached).after
    ELSE /\ cacheKeyOf("tripUpdates") \in DOMAIN Val(lastCached).after
         /\ Val(lastCached).after[cacheKeyOf("tripUpdates")].ttl = ttl_

\* C22: the fetched real-time entities are cached with the most restrictive
\* freshness hint over all endpoint responses: the smallest max-age, ttl 0
\* (nothing cached) as soon as a response says no-cache without max-age, and the
\* 15 s fallback only when no response carries a hint.
C22_MostRestrictiveHint ==
    Fetched => CachedFor(MostRestrictiveTtl(Val(lastCached).args))

\* the statement of C22 for a fetch from one endpoint
C22_SingleEndpoint ==
    (Fetched /\ Len(Val(lastCached).args) = 1) =>
        CachedFor(MostRestrictiveTtl(Val(lastCached).args))

\* a fetch from one endpoint that answered no-cache has left nothing cached
C22_NoCacheReached ==
    /\ Fetched /\ Len(Val(lastCached).args) = 1 /\ NoCacheOnly(Val(lastCached).args)
    /\ cacheKeyOf("tripUpdates") \notin DOMAIN cacheManager

(***************************************************************************)
(* Specification SpecSchedule: static lookups of one route at one stop     *)
(* through the cache while time passes, for several calendars and agency   *)
(* time zones.                                                             *)
(***************************************************************************)
ScheduleTick == 4 * Hour

\* 2008-01-05 (a Saturday) at 03:00:00 on the server's clock
ScheduleStart == 2 * Day + 3 * Hour

\* the agency's time zone is the server's, or 5 hours behind it
AgencyTimezones == {0, -5 * Hour}

\* both services run on Saturdays and Sundays only
Weekends ==
    { [service_id |-> s, start_date |-> 0, end_date |-> 4, dow |-> <<1, 0, 0, 0, 0, 0, 1>>] :
        s \in {"FULLW", "WE"} }

\* exceptions of service FULLW: added on Friday 2008-01-04, added and removed on
\* Saturday 2008-01-05
CalendarDateRows ==
    { [service_id |-> "FULLW", date |-> 1, exception_type |-> 1],
      [service_id |-> "FULLW", date |-> 2, exception_type |-> 1],
      [service_id |-> "FULLW", date |-> 2, exception_type |-> 2] }

ScheduleInit ==
    /\ now = ScheduleStart
    /\ cacheManager = <<>>
    /\ lastCached = None
    /\ agencyTimezone \in AgencyTimezones
    /\ calendar \in {EveryDay, Weekends}
    /\ calendarDates \in SUBSET CalendarDateRows
    /\ routes = <<>> /\ feedEntities = <<>> /\ dayIndex = 0 /\ tripStops = <<>>
    /\ visited = <<>> /\ callOutcome = [status |-> "idle", failed |-> {}]
    /\ ResolveIdle /\ AggIdle /\ SubIdle /\ ParseIdle /\ ServiceIdle

ScheduleNext ==
    \/ \E dayOffset \in {0, 1} :
          CallGetScheduleForRouteAtStop("STBA", "STAGECOACH", dayOffset)
    \/ TimePasses(ScheduleStart, ScheduleTick)

SpecSchedule == ScheduleInit /\ [][ScheduleNext]_vars

\* the last call was a static lookup; Looked: its query was run and has succeeded
StaticCall == Has(lastCached) /\ Val(lastCached).fn = "getScheduleForRouteAtStop"
Looked == StaticCall /\ Val(lastCached).invoked /\ ~Val(lastCached).settled.threw

\* the agency-local date the last static lookup was made for
QueriedDay == currentDay(Val(lastCached).at, Val(lastCached).args.dayOffset)

WeekdayMatches(service_id, today) ==
    \E c \in calendar : /\ c.service_id = service_id
                        /\ c.start_date <= today /\ today <= c.end_date
                        /\ c.dow[dayOfWeek(today) + 1] = 1

Exception(service_id, today, type) ==
    [service_id |-> service_id, date |-> today, exception_type |-> type] \in calendarDates

\* active by the rule of C26: an addition overrides a removal, a removal
\* overrides the weekday pattern
ActiveByRule(service_id, today) ==
    \/ Exception(service_id, today, 1)
    \/ WeekdayMatches(service_id, today) /\ ~Exception(service_id, today, 2)

\* the trips the last static lookup returned
TripsLooked ==
    {Val(lastCached).result.value[i].trip_id : i \in 1..Len(Val(lastCached).result.value)}

\* the trips of the queried route at the queried stop whose service is active
\* on the queried day by the rule of C26
TripsByRule ==
    {stopTimes[i].trip_id : i \in {j \in 1..Len(stopTimes) :
        /\ stopTimes[j].route_id = Val(lastCached).args.routeId
        /\ stopTimes[j].stop_id = Val(lastCached).args.stopId
        /\ ActiveByRule(stopTimes[j].service_id, QueriedDay)}}

\* C26: the services active on the queried day are those whose weekday pattern
\* matches within the calendar date range, plus the date-specific additions and
\* less the removals, where an addition overrides a removal: a service with an
\* addition for the day is active even if it has a removal for the same day, and
\* a service with only a removal is inactive even if its weekday pattern matches.
C26_AdditionOverridesRemoval ==
    Looked => TripsLooked = TripsByRule

\* the statement of C26 for days on which no service has both exceptions
C26_OneExceptionPerDay ==
    (Looked /\ ~(Exception("FULLW", QueriedDay, 1) /\ Exception("FULLW", QueriedDay, 2)))
        => TripsLooked = TripsByRule

\* a service with only a removal on a day of its weekday pattern gave no trips
C26_RemovalReached ==
    /\ Looked /\ WeekdayMatches("FULLW", QueriedDay)
    /\ Exception("FULLW", QueriedDay, 2) /\ ~Exception("FULLW", QueriedDay, 1)
    /\ TripsLooked = {}

\* C29: a static occurrence list served by getScheduleForRouteAtStop(routeId,
\* stopId, dayOffset), from the cache or not, is the list a fresh lookup gives
\* at the time of the request, the occurrences of the agency-local date of
\* now + dayOffset, for every agency time zone and all request times within the
\* 12 h ttl: two requests with the same cache key resolve to the same date.
C29_CachedListIsFresh ==
    (StaticCall /\ ~Val(lastCached).result.threw) =>
        Val(lastCached).result.value =
            getScheduleForRouteAtStop(Val(lastCached).at, Val(lastCached).args.routeId,
                                      Val(lastCached).args.stopId,
                                      Val(lastCached).args.dayOffset)

\* the statement of C29 for an agency in the time zone of the server
C29_SameTimezone ==
    (StaticCall /\ ~Val(lastCached).result.threw /\ agencyTimezone = 0) =>
        Val(lastCached).result.value =
            getScheduleForRouteAtStop(Val(lastCached).at, Val(lastCached).args.routeId,
                                      Val(lastCached).args.stopId,
                                      Val(lastCached).args.dayOffset)

\* a list stored 8 hours earlier was served from the cache
C29_ServedFromCacheReached ==
    /\ StaticCall /\ ~Val(lastCached).invoked /\ agencyTimezone = 0
    /\ Val(lastCached).result.value # <<>>
    /\ Val(lastCached).before[cacheKeyOf(Val(lastCached).key)].ttl = scheduleTtl - 2 * ScheduleTick

\* the last call was in nextPerRoute mode
PerRouteCall == Has(schedule) /\ Val(options).listMode = "nextPerRoute"

\* the trips of a pair in a list of trips
TripsOfPair(trips, pair) ==
    {i \in 1..Len(trips) : <<trips[i].routeId, trips[i].stopId>> = pair}

\* C37: in nextPerRoute mode every (routeId, stopId) pair that has an upcoming
\* trip has exactly one trip in the sequence in front of the truncation, also
\* when a route or stop id holds the character '-'.
C37_OneTripPerPair ==
    PerRouteCall =>
        \A pair \in PairsOf(upcomingSorted(upcomingTrips, Val(options), clock)) :
            Cardinality(TripsOfPair(BeforeTruncation, pair)) = 1

\* the statement of C37 for results whose pairs have different keys
C37_DistinctKeys ==
    (PerRouteCall /\ ~(\E i, j \in 1..Len(upcomingTrips) :
                          /\ pairKey(upcomingTrips[i]) = pairKey(upcomingTrips[j])
                          /\ <<upcomingTrips[i].routeId, upcomingTrips[i].stopId>>
                                # <<upcomingTrips[j].routeId, upcomingTrips[j].stopId>>)) =>
        \A pair \in PairsOf(upcomingSorted(upcomingTrips, Val(options), clock)) :
            Cardinality(TripsOfPair(BeforeTruncation, pair)) = 1

\* two pairs, one with '-' in its route id, have three upcoming trips in all
\* and one trip each in front of the truncation
C37_DashedPairReached ==
    /\ PerRouteCall
    /\ Len(upcomingSorted(upcomingTrips, Val(options), clock)) = 3
    /\ PairsOf(BeforeTruncation) = {<<"a-b", "c">>, <<"a", "c">>}
    /\ Len(BeforeTruncation) = 2

\* the call from its start when the real-time fetch of every iteration has the
\* same outcome: all succeed (rtOk) or all fail
RECURSIVE UniformPass(_, _)
UniformPass(days, rtOk) ==
    IF days = 0 THEN [tripStops |-> <<>>, visited |-> <<>>]
    ELSE processScheduleDate(UniformPass(days - 1, rtOk), now,
             flatSchedules(lookups(<<>>, now, routes, scheduleDates[days], {}), 1),
             feedEntities, rtOk)

\* C36: within one call of getUpcomingTripsForRoutesAtStops the occurrences of
\* all three day offsets are reconciled against the same real-time data: the
\* list returned is the one obtained with the feed applied to every day offset
\* or the one obtained with no real-time data for any day offset.
C36_SameRealtimeDataForAllDays ==
    Returned =>
        tripStops \in {UniformPass(Len(scheduleDates), TRUE).tripStops,
                       UniformPass(Len(scheduleDates), FALSE).tripStops}

\* the part of C36 that the code keeps: each occurrence is reconciled with the
\* feed or with no real-time data at all, never with other updates
C36_FeedOrNothing ==
    Returned =>
        \A n \in 1..Len(visited) :
            \/ visited[n] = UniformPass(Len(scheduleDates), TRUE).visited[n]
            \/ visited[n] = UniformPass(Len(scheduleDates), FALSE).visited[n]

\* a call has returned occurrences of two days, all of them adjusted by the feed
C36_AllDaysRealtimeReached ==
    /\ Returned /\ Len(tripStops) = 2
    /\ \A k \in 1..2 : tripStops[k].isRealtime
    /\ tripStops = UniformPass(Len(scheduleDates), TRUE).tripStops

\* the passes of an execution that are in flight: updateSchedule has been
\* called and its continuation behind the await has not run yet
InFlight(exec) == {p \in 1..Len(exec.passes) : exec.passes[p].phase # "done"}

\* C32: at most one pass of a subscription is in flight at any time: the
\* periodic timer starts no pass while the first pass or the pass of an earlier
\* tick has not completed.
C32_OnePassInFlight ==
    \A e \in 1..Len(execs) : Cardinality(InFlight(execs[e])) <= 1

\* the statement of C32 for the time before the periodic timer is started
C32_BeforeFirstTick ==
    \A e \in 1..Len(execs) :
        execs[e].interval = "unset" => Cardinality(InFlight(execs[e])) <= 1

\* three passes of a periodic timer that is still armed are done, none is in
\* flight, and each of them has emitted a snapshot
C32_PassesInTurnReached ==
    \E e \in 1..Len(execs) :
        /\ execs[e].interval = "armed" /\ Len(execs[e].passes) = 3
        /\ InFlight(execs[e]) = {}
        /\ Len(execs[e].emitted) = 3

\* C31: the snapshots of a subscription are stored and emitted in the order in
\* which their passes were started: a pass never assigns currentSchedule and
\* emits after a pass that was started later has done so, also when a pass
\* takes longer than the polling period.  Stated for the executions that are
\* open, where every assignment of line 158 was followed by a delivery.
C31_EmittedInStartOrder ==
    \A e \in 1..Len(execs) :
        execs[e].status = "open" =>
            /\ Len(execs[e].storedBy) = Len(execs[e].emitted)
            /\ \A i, j \in 1..Len(execs[e].storedBy) :
                  i < j => execs[e].storedBy[i] < execs[e].storedBy[j]

\* an open execution has emitted the snapshots of its first three passes in
\* the order of their start
C31_InOrderReached ==
    \E e \in 1..Len(execs) :
        /\ execs[e].status = "open"
        /\ execs[e].storedBy = <<1, 2, 3>>
        /\ Len(execs[e].emitted) = 3

\* the executions that have ended
Ended == {e \in 1..Len(execs) : execs[e].status # "open"}

\* C34: the registry is balanced with the executions: metricsService.add is
\* called once when an execution starts and metricsService.remove once when it
\* ends, by the detaching of the last consumer or by the error of a pass, and
\* an execution that has ended has neither its startup timer nor its periodic
\* timer armed.
C34_RegistryBalanced ==
    /\ [](/\ metrics.add = Len(execs)
          /\ metrics.remove = Cardinality(Ended)
          /\ \A e \in Ended :
                execs[e].delayTimeout # "armed" /\ execs[e].interval # "armed")
    /\ [][/\ metrics'.add = metrics.add + (IF Len(execs') > Len(execs) THEN 1 ELSE 0)
          /\ metrics'.remove = metrics.remove +
                (IF \E e \in 1..Len(execs) : execs[e].status = "open" /\ execs'[e].status # "open"
                 THEN 1 ELSE 0)
          /\ \A e \in Ended : execs'[e].status = execs[e].status]_vars

\* C34 witness: the first pass of an execution failed before the startup delay
\* had elapsed while a consumer was attached: one add, one remove, the startup
\* timer cleared and the periodic timer never set
C34_Witness ==
    /\ Len(execs) = 1 /\ execs[1].status = "errored"
    /\ execs[1].delayTimeout = "cleared" /\ execs[1].interval = "unset"
    /\ metrics = [add |-> 1, remove |-> 1]
    /\ received["c1"] = <<errorNotification>>

(***************************************************************************)
(* Specification SpecPoll: the polling of one execution without end.  The  *)
(* passes of an execution are the calls of updateSchedule in flight, in    *)
(* the order of their start: a pass leaves the list when its continuation  *)
(* has run, and the history fields of the execution are not kept.  The     *)
(* schedule never fails and changes MaxChanges times at most.  The timers  *)
(* fire and every pass settles: setTimeout and setInterval call back when  *)
(* they are armed, and the oldest pass in flight is always served.         *)
(***************************************************************************)
MaxChanges == 2

\* what getUpcomingTrips gives: no trips or one trip
PollValues == {[trips |-> <<>>], [trips |-> <<SubTrip>>]}

PollInit ==
    /\ upstream \in PollValues
    /\ attached = {}
    /\ received = [c \in Consumers |-> <<>>]
    /\ execs = <<>>
    /\ metrics = [add |-> 0, remove |-> 0]
    /\ observable = "created"
    /\ changes = 0 /\ awaiting = {}
    /\ ResolveIdle /\ ReconIdle /\ AggIdle /\ ParseIdle /\ ServiceIdle

\* the data behind getUpcomingTrips changes while the consumers of awaiting'
\* are attached
ScheduleChanges ==
    /\ changes < MaxChanges
    /\ \E v \in PollValues \ {upstream} : upstream' = v
    /\ changes' = changes + 1
    /\ awaiting' = attached
    /\ UNCHANGED <<observable, attached, received, execs, metrics,
                   resolveVars, reconVars, aggVars, parseVars, serviceVars>>

\* line 149: getUpcomingTrips reads the data; its promise is not settled yet
PollFetches(e, p) ==
    /\ execs[e].passes[p].phase = "running"
    /\ execs' = [execs EXCEPT ![e].passes[p] = [phase |-> "fetched", result |-> Some(upstream)]]
    /\ UNCHANGED <<observable, upstream, attached, received, metrics, pollVars,
                   resolveVars, reconVars, aggVars, parseVars, serviceVars>>

\* the calls in flight without the p-th
settled(passes, p) == SubSeq(passes, 1, p - 1) \o SubSeq(passes, p + 1, Len(passes))

\* lines 154-160: the continuation of updateSchedule behind the await, for a
\* call of getUpcomingTrips that did not throw
PollCompletes(e, p) ==
    /\ execs[e].passes[p].phase = "fetched"
    /\ LET exec == execs[e]
           trips == Val(exec.passes[p].result)
           emits == shouldEmit(exec.currentSchedule, trips)
           \* line 159: observer.next does nothing once the subscriber is closed
           delivers == emits /\ exec.status = "open"
       IN  /\ execs' = [execs EXCEPT ![e] =
                  [exec EXCEPT !.passes = settled(@, p),
                               !.currentSchedule = IF emits THEN trips ELSE @]]
           /\ received' = IF delivers THEN notify(received, attached, nextNotification(trips))
                          ELSE received
    /\ UNCHANGED <<observable, upstream, attached, metrics, pollVars,
                   resolveVars, reconVars, aggVars, parseVars, serviceVars>>

PollNext ==
    \/ ScheduleChanges
    \/ \E c \in Consumers : Subscribe(c)
    \/ \E c \in Consumers : Unsubscribe(c)
    \/ \E e \in 1..Len(execs) : DelayElapses(e)
    \/ \E e \in 1..Len(execs) : IntervalTick(e)
    \/ \E e \in 1..Len(execs) : \E p \in 1..Len(execs[e].passes) : PollFetches(e, p)
    \/ \E e \in 1..Len(execs) : \E p \in 1..Len(execs[e].passes) : PollCompletes(e, p)

\* the oldest pass in flight is served
OldestFetches == \E e \in 1..Len(execs) : execs[e].passes # <<>> /\ PollFetches(e, 1)
OldestCompletes == \E e \in 1..Len(execs) : execs[e].passes # <<>> /\ PollCompletes(e, 1)

PollFair ==
    /\ WF_vars(\E e \in 1..Len(execs) : DelayElapses(e))
    /\ WF_vars(\E e \in 1..Len(execs) : IntervalTick(e))
    /\ WF_vars(OldestFetches)
    /\ WF_vars(OldestCompletes)

SpecPoll == PollInit /\ [][PollNext]_vars /\ PollFair

\* the snapshot a consumer received last is the given one
HasLatest(c, snapshot) ==
    /\ received[c] # <<>>
    /\ received[c][Len(received[c])] = nextNotification(snapshot)

\* a consumer attached to an execution that has emitted nothing yet
AttachedFromStart(c) ==
    c \in attached /\ execs[Len(execs)].currentSchedule = Null

\* C33: every consumer that attaches to a subscription receives a snapshot of
\* the schedule, also one that attaches to a shared subscription that is
\* running already and whose schedule does not change afterwards: a consumer
\* that is attached is detached later or has received a snapshot.
C33_EveryConsumerServed ==
    \A c \in Consumers :
        (c \in attached) ~> (c \notin attached \/ received[c] # <<>>)

\* the statement of C33 for the consumers that attach before the first
\* emission of an execution
C33_FirstConsumersServed ==
    \A c \in Consumers :
        AttachedFromStart(c) ~> (c \notin attached \/ received[c] # <<>>)

\* a consumer that attached with the first pass in flight has received the
\* same snapshot as the consumer that started the execution
C33_SecondConsumerServedReached ==
    /\ attached = Consumers
    /\ received["c1"] = received["c2"] /\ Len(received["c1"]) = 1
    /\ execs[1].interval = "unset"

\* the consumer has been attached since the schedule changed to the value
\* that it has now
Awaits(c, v) == c \in awaiting /\ upstream = v

\* C35: with timers that fire and passes that settle without error, when the
\* schedule changes and stays at the new value, every consumer that is attached
\* and stays attached has the new snapshot as its latest one in the end.
C35_ChangeReachesConsumers ==
    \A c \in Consumers : \A v \in PollValues :
        Awaits(c, v) ~> (c \notin awaiting \/ upstream # v \/ HasLatest(c, v))

\* the consumer has received every snapshot that its execution emitted
MissedNothing(c) ==
    c \in attached /\ (received[c] # <<>> \/ execs[Len(execs)].currentSchedule = Null)

\* the statement of C35 for the consumers that missed no snapshot, and its
\* second part: the startup delay of an open execution elapses, and while an
\* execution stays open the periodic timer starts passes again and again
C35_ServedConsumersFollow ==
    /\ \A c \in Consumers : \A v \in PollValues :
          (Awaits(c, v) /\ MissedNothing(c))
              ~> (c \notin awaiting \/ upstream # v \/ HasLatest(c, v))
    /\ (attached # {} /\ execs[Len(execs)].delayTimeout = "armed")
          ~> (attached = {} \/ execs[Len(execs)].interval = "armed")
    /\ \/ <>[](attached = {})
       \/ []<><<\E e \in 1..Len(execs) : IntervalTick(e)>>_vars

\* both consumers have received the snapshot of a change as their second one
C35_ChangeDeliveredReached ==
    /\ awaiting = Consumers /\ changes = 1
    /\ \A c \in Consumers : Len(received[c]) = 2 /\ HasLatest(c, upstream)

====
